---------------------------- MODULE Spec2Model ----------------------------
(***************************************************************************)
(* A model of munkireport-core (mrlib): the dictionary flattener           *)
(* UtilsMixin.flat_dict, the report writer ReportWriterMixin.write_report, *)
(* the return convention _return of the binary wrappers, the dictionary    *)
(* cleaner, the decorated binary wrappers and the parsers of their output. *)
(*                                                                         *)
(* Python values are tagged pairs <<type, payload>>.  A str payload is a   *)
(* sequence of characters, a dict payload is the sequence of its items in  *)
(* insertion order, a list / tuple / set payload the sequence of elements. *)
(***************************************************************************)
EXTENDS Integers, Sequences, FiniteSets, TLC

VARIABLES
  fd,          \* the running flat_dict call: d, sep, parent, index, result, pc
  wr,          \* the running write_report call: data, fp, fmt, fn, exc, pc
  fs,          \* the file system under tmp_dir: dir_exists, files
  io,          \* the file operations performed so far, in order
  rt,          \* the running _return call: p, fmt, sc, ec, kwargs, ret, exc, pc
  sys_stderr,  \* the lines printed to sys.stderr so far
  cd,          \* the running clean_dict call: d, result, again, pc
  bw,          \* the last call of a binary wrapper: name, args, kwargs, cmd, ...
  _kwargs,     \* the _kwargs dict each decorated wrapper closes over
  pr           \* the running parser call: which, p, ret, exc, pc

vars == <<fd, wr, fs, io, rt, sys_stderr, cd, bw, _kwargs, pr>>

(***************************************************************************)
(* Python values                                                           *)
(***************************************************************************)
PyInt(n) == <<"int", n>>
PyStr(s) == <<"str", s>>
PyNone == <<"NoneType", <<>>>>
PyBool(b) == <<"bool", b>>
PyDict(items) == <<"dict", items>>
PyList(xs) == <<"list", xs>>
PyTuple(xs) == <<"tuple", xs>>
PySet(xs) == <<"set", xs>>

Tag(x) == x[1]
Payload(x) == x[2]

Item(k, v) == [key |-> k, val |-> v]

\* a truth test that only asks "is not None"
TruthyNotNone(x) == Tag(x) # "NoneType"

\* bool(x): the truth value Python gives a value
Truthy(x) ==
  CASE Tag(x) = "int" -> Payload(x) # 0
    [] Tag(x) = "bool" -> Payload(x)
    [] Tag(x) = "NoneType" -> FALSE
    [] OTHER -> Len(Payload(x)) > 0

\* isinstance(val, (dict, OrderedDict))
IsMapping(x) == Tag(x) = "dict"

\* isinstance(val, (list, set, tuple))
IsSequence(x) == Tag(x) \in {"list", "set", "tuple"}

DigitChars == <<"0", "1", "2", "3", "4", "5", "6", "7", "8", "9">>

RECURSIVE Digits(_)
\* str(n) of a non-negative int
Digits(n) ==
  IF n < 10 THEN <<DigitChars[n + 1]>>
  ELSE Digits(n \div 10) \o <<DigitChars[(n % 10) + 1]>>

\* str(index), as in f"{str(index)}"
IntStr(n) == IF n < 0 THEN <<"-">> \o Digits(0 - n) ELSE Digits(n)

\* f"{key}": a str key is taken as it is, an int key becomes its decimal text
Format(key) ==
  IF Tag(key) = "str" THEN Payload(key) ELSE IntStr(Payload(key))

(***************************************************************************)
(* dict operations on item sequences                                       *)
(***************************************************************************)
DictKeys(items) == {items[i].key : i \in 1..Len(items)}

DictHas(items, k) == k \in DictKeys(items)

DictGet(items, k) ==
  items[CHOOSE i \in 1..Len(items) : items[i].key = k].val

\* items[k] = v: an existing key keeps its position, a new key goes last
DictSet(items, k, v) ==
  IF DictHas(items, k)
  THEN [items EXCEPT ![CHOOSE i \in 1..Len(items) : items[i].key = k] = Item(k, v)]
  ELSE Append(items, Item(k, v))

RECURSIVE DictUpdateFrom(_, _, _)
DictUpdateFrom(items, other, i) ==
  IF i > Len(other) THEN items
  ELSE DictUpdateFrom(DictSet(items, other[i].key, other[i].val), other, i + 1)

\* result.update({_key: _val for _key, _val in deeper.items()})
DictUpdate(items, other) == DictUpdateFrom(items, other, 1)

(***************************************************************************)
(* UtilsMixin.flat_dict                                                    *)
(***************************************************************************)
\* a nested parent key that leaves the separator out
MappingParentNoSep(parent, key, sep) == parent \o Format(key)

\* a nested parent key that always joins with "."
MappingParentDot(parent, key, sep) == parent \o Format(key) \o <<".">>

\* new_parent = f"{parent}{key}{sep}" for a nested mapping
MappingParent(parent, key, sep) == parent \o Format(key) \o sep

\* new_parent = f"{parent}{key}{sep}{str(index)}{sep}" for a mapping element
ElemParent(parent, key, sep, index) ==
  parent \o Format(key) \o sep \o IntStr(index) \o sep

\* a positional key counted from 0, as enumerate(val) without start=1
ElemKeyFromZero(parent, key, sep, index) ==
  parent \o Format(key) \o sep \o IntStr(index - 1)

\* new_parent = f"{parent}{key}{sep}{str(index)}" for any other element
ElemKey(parent, key, sep, index) ==
  parent \o Format(key) \o sep \o IntStr(index)

\* a plain key with a trailing ".", as the nested-mapping parent has
PlainKeyDot(parent, key) == parent \o Format(key) \o <<".">>

\* f"{parent}{key}" for a plain value
PlainKey(parent, key) == parent \o Format(key)

RECURSIVE flat_dict(_, _, _)
RECURSIVE FlatLoop(_, _, _, _, _)
RECURSIVE FlatItem(_, _, _, _, _)
RECURSIVE FlatSeq(_, _, _, _, _, _)
RECURSIVE FlatElem(_, _, _, _, _, _)

\* one pass of the inner loop over enumerate(val, start=1)
FlatElem(result, val, index, key, sep, parent) ==
  LET sub_iter == Payload(val)[index] IN
  IF Truthy(sub_iter) /\ IsMapping(sub_iter)
  THEN DictUpdate(result,
         flat_dict(Payload(sub_iter), sep, ElemParent(parent, key, sep, index)))
  ELSE DictSet(result, PyStr(ElemKey(parent, key, sep, index)), val)

\* the inner loop: for index, sub_iter in enumerate(val, start=1)
FlatSeq(result, val, index, key, sep, parent) ==
  IF index > Len(Payload(val)) THEN result
  ELSE FlatSeq(FlatElem(result, val, index, key, sep, parent),
               val, index + 1, key, sep, parent)

\* one pass of the outer loop over d.items()
FlatItem(result, key, val, sep, parent) ==
  IF Truthy(val) /\ IsMapping(val)
  THEN DictUpdate(result,
         flat_dict(Payload(val), sep, MappingParent(parent, key, sep)))
  ELSE IF Truthy(val) /\ IsSequence(val)
  THEN FlatSeq(result, val, 1, key, sep, parent)
  ELSE DictSet(result, PyStr(PlainKey(parent, key)), val)

\* the outer loop: for key, val in d.items()
FlatLoop(result, d, i, sep, parent) ==
  IF i > Len(d) THEN result
  ELSE FlatLoop(FlatItem(result, d[i].key, d[i].val, sep, parent),
                d, i + 1, sep, parent)

\* flat_dict(d, sep, parent): result = {}; the loop; return result
flat_dict(d, sep, parent) == FlatLoop(<<>>, d, 1, sep, parent)

(***************************************************************************)
(* The inputs of flat_dict                                                 *)
(***************************************************************************)
\* the most items the flattened top-level mapping holds
MaxItems == 2

Str1(c) == PyStr(<<c>>)

\* top-level keys in the order they are inserted; "a.b" holds the separator
\* ".", "a_" ends with the first character of the separator "__", 1 is an int
TopKeys == <<Str1("a"), PyStr(<<"a", ".", "b">>), PyInt(1), PyStr(<<"a", "_">>)>>

InnerB1 == <<Item(Str1("b"), PyInt(1))>>
InnerB1C2 == <<Item(Str1("b"), PyInt(1)), Item(Str1("c"), PyInt(2))>>
InnerDeep == <<Item(Str1("b"), PyDict(<<Item(Str1("c"), PyInt(2))>>))>>

\* plain values: scalars, among them every falsy one
PlainValues == {PyInt(0), PyInt(1), PyStr(<<>>), PyNone, PyBool(FALSE)}

MappingValues == {PyDict(<<>>), PyDict(InnerB1), PyDict(InnerB1C2), PyDict(InnerDeep)}

SequenceValues ==
  {PyList(<<>>), PyTuple(<<>>), PySet(<<>>),
   PyList(<<PyInt(1), PyInt(2)>>),
   PyList(<<PyDict(<<>>)>>),
   PyList(<<PyDict(InnerB1), PyInt(1)>>),
   PyTuple(<<PyDict(InnerB1C2)>>),
   PySet(<<PyInt(1)>>)}

Values == PlainValues \cup MappingValues \cup SequenceValues

\* strictly increasing index sequences of length n into TopKeys
KeyPicks(n) ==
  {ks \in [1..n -> 1..Len(TopKeys)] : \A i \in 1..n : \A j \in 1..n : i < j => ks[i] < ks[j]}

\* the mappings of n items: distinct keys in TopKeys order, any values
MappingsOfLen(n) ==
  {[i \in 1..n |-> Item(TopKeys[ks[i]], vs[i])] : ks \in KeyPicks(n), vs \in [1..n -> Values]}

InputMappings == UNION {MappingsOfLen(n) : n \in 0..MaxItems}

Separators == {<<".">>, <<"_", "_">>}

\* parent is "" on the caller's call and ends with the separator on a nested one
Parents(sep) == {<<>>, <<"p">> \o sep}

(***************************************************************************)
(* flat_dict as a process: one step per pass of its loop over d.items()    *)
(***************************************************************************)
FdIdle == [d |-> <<>>, sep |-> <<>>, parent |-> <<>>, index |-> 0, result |-> <<>>, pc |-> "idle"]
WrIdle == [pc |-> "idle"]
FsIdle == [pc |-> "idle"]
RtIdle == [pc |-> "idle"]
CdIdle == [pc |-> "idle"]
BwIdle == [pc |-> "idle"]
KwIdle == [pc |-> "idle"]
PrIdle == [pc |-> "idle"]

FlatInit ==
  /\ \E d \in InputMappings : \E sep \in Separators : \E parent \in Parents(sep) :
        fd = [d |-> d, sep |-> sep, parent |-> parent, index |-> 1,
              result |-> <<>>, pc |-> "loop"]
  /\ wr = WrIdle /\ fs = FsIdle /\ io = <<>>
  /\ rt = RtIdle /\ sys_stderr = <<>>
  /\ cd = CdIdle /\ bw = BwIdle /\ _kwargs = KwIdle /\ pr = PrIdle

\* for key, val in d.items(): the body, for the next item
FlatDictStep ==
  /\ fd.pc = "loop"
  /\ fd.index <= Len(fd.d)
  /\ fd' = [fd EXCEPT
              !.result = FlatItem(fd.result, fd.d[fd.index].key, fd.d[fd.index].val,
                                  fd.sep, fd.parent),
              !.index = @ + 1]
  /\ UNCHANGED <<wr, fs, io, rt, sys_stderr, cd, bw, _kwargs, pr>>

\* return result
FlatDictReturn ==
  /\ fd.pc = "loop"
  /\ fd.index > Len(fd.d)
  /\ fd' = [fd EXCEPT !.pc = "done"]
  /\ UNCHANGED <<wr, fs, io, rt, sys_stderr, cd, bw, _kwargs, pr>>

FlatNext == FlatDictStep \/ FlatDictReturn

SpecFlat == FlatInit /\ [][FlatNext]_vars

\* the whole call agrees with the recursive function
FlatSanity == fd.pc = "done" => fd.result = flat_dict(fd.d, fd.sep, fd.parent)

(***************************************************************************)
(* Properties of flat_dict                                                 *)
(***************************************************************************)
\* the item the next pass of the loop handles
StepKey == fd.d[fd.index].key
StepVal == fd.d[fd.index].val
Stepped == fd.pc = "loop" /\ fd.index <= Len(fd.d) /\ fd'.index = fd.index + 1

\* the item the last pass of the loop handled
LastKey == fd.d[fd.index - 1].key
LastVal == fd.d[fd.index - 1].val

Holds(items, k, v) == DictHas(items, k) /\ DictGet(items, k) = v
HoldsAll(items, other) ==
  \A j \in 1..Len(other) : Holds(items, other[j].key, other[j].val)
NewKeys == DictKeys(fd'.result) \ DictKeys(fd.result)

\* the sequence pass, with `recurses` saying which elements are recursed into
SequencePass(recurses(_)) ==
  LET elems == Payload(StepVal)
      pos(i) == fd.parent \o Format(StepKey) \o fd.sep \o IntStr(i)
      deeper(i) == flat_dict(Payload(elems[i]), fd.sep, pos(i) \o fd.sep)
  IN /\ \A i \in 1..Len(elems) :
          IF recurses(elems[i])
          THEN /\ HoldsAll(fd'.result, deeper(i))
               /\ PyStr(pos(i)) \notin NewKeys
          ELSE Holds(fd'.result, PyStr(pos(i)), StepVal)
     /\ \A k \in NewKeys : \E i \in 1..Len(elems) :
          IF recurses(elems[i]) THEN k \in DictKeys(deeper(i)) ELSE k = PyStr(pos(i))

AnyMapping(e) == IsMapping(e)
NonEmptyMapping(e) == IsMapping(e) /\ Len(Payload(e)) > 0

\* C5 as stated: a non-empty sequence value under key k is expanded by position
\* from 1; every element that is a mapping is recursed into with parent
\* prefix+k+sep+position+sep (and gets no positional key), every other element
\* makes prefix+k+sep+position hold the whole sequence.
C5_SequenceExpansion_AsStated ==
  [][(Stepped /\ Truthy(StepVal) /\ IsSequence(StepVal)) => SequencePass(AnyMapping)]_vars

\* C5 amended: the same, but only a NON-EMPTY mapping element is recursed into;
\* an empty mapping element is treated like every other element, so that
\* prefix+k+sep+position holds the whole sequence.
C5_SequenceExpansion ==
  [][(Stepped /\ Truthy(StepVal) /\ IsSequence(StepVal)) => SequencePass(NonEmptyMapping)]_vars

ListB1And1 == PyList(<<PyDict(InnerB1), PyInt(1)>>)

\* {"a": [{"b": 1}, 1]} with "." has been expanded to a.1.b = 1, a.2 = the list
C5_Witness ==
  /\ fd.pc = "loop" /\ fd.index = 2 /\ fd.parent = <<>> /\ fd.sep = <<".">>
  /\ LastKey = Str1("a") /\ LastVal = ListB1And1
  /\ Holds(fd.result, PyStr(<<"a", ".", "1", ".", "b">>), PyInt(1))
  /\ Holds(fd.result, PyStr(<<"a", ".", "2">>), ListB1And1)

ExampleInput == <<Item(Str1("a"), PyDict(InnerB1C2))>>
ExampleOutput ==
  <<Item(PyStr(<<"a", ".", "b">>), PyInt(1)), Item(PyStr(<<"a", ".", "c">>), PyInt(2))>>

\* C6: a non-empty nested mapping under key k is expanded by recursing with
\* parent prefix+k+sep: the pass puts exactly the recursion's entries into the
\* result (every new key is one of them, every inner plain value gets the key
\* prefix+k+sep+inner key, other entries are untouched) and adds no entry for
\* prefix+k itself; and {"a": {"b": 1, "c": 2}} with "." gives {"a.b": 1, "a.c": 2}.
C6_NestedMapping ==
  [][/\ (Stepped /\ Truthy(StepVal) /\ IsMapping(StepVal)) =>
          LET pre == fd.parent \o Format(StepKey) \o fd.sep
              inner == Payload(StepVal)
              deeper == flat_dict(inner, fd.sep, pre)
          IN /\ HoldsAll(fd'.result, deeper)
             /\ NewKeys \subseteq DictKeys(deeper)
             /\ \A k \in DictKeys(fd.result) \ DictKeys(deeper) :
                  Holds(fd'.result, k, DictGet(fd.result, k))
             /\ \A j \in 1..Len(inner) :
                  ~(Truthy(inner[j].val) /\ (IsMapping(inner[j].val) \/ IsSequence(inner[j].val)))
                     => DictHas(fd'.result, PyStr(pre \o Format(inner[j].key)))
             /\ PyStr(fd.parent \o Format(StepKey)) \notin NewKeys
     /\ (fd'.pc = "done" /\ fd.d = ExampleInput /\ fd.sep = <<".">> /\ fd.parent = <<>>)
          => fd'.result = ExampleOutput
    ]_vars

\* the example of C6 has been flattened
C6_Witness ==
  /\ fd.pc = "done" /\ fd.d = ExampleInput /\ fd.sep = <<".">> /\ fd.parent = <<>>
  /\ fd.result = ExampleOutput

\* the falsy values C7 lists
Falsy ==
  {PyDict(<<>>), PyList(<<>>), PyTuple(<<>>), PySet(<<>>), PyStr(<<>>),
   PyInt(0), PyNone, PyBool(FALSE)}

\* C7: the pass that handles a falsy value (empty mapping, empty sequence, empty
\* string, zero, None, False) under key k stores that value unchanged under
\* prefix+k and does nothing else: no recursion result, no positional key.
C7_FalsyStored ==
  [][(Stepped /\ StepVal \in Falsy) =>
        LET pk == PyStr(fd.parent \o Format(StepKey)) IN
          /\ Holds(fd'.result, pk, StepVal)
          /\ DictKeys(fd'.result) = DictKeys(fd.result) \cup {pk}
          /\ \A k \in DictKeys(fd.result) \ {pk} : Holds(fd'.result, k, DictGet(fd.result, k))
    ]_vars

\* an empty mapping and an empty list have each been stored as they are
C7_Witness ==
  /\ fd.pc = "done" /\ Len(fd.d) = 2 /\ fd.parent = <<>>
  /\ fd.d[1].val = PyDict(<<>>) /\ fd.d[2].val = PyList(<<>>)
  /\ Holds(fd.result, PyStr(Format(fd.d[1].key)), PyDict(<<>>))
  /\ Holds(fd.result, PyStr(Format(fd.d[2].key)), PyList(<<>>))
  /\ Len(fd.result) = 2

ValuesOf(items) == [j \in 1..Len(items) |-> items[j].val]

RECURSIVE LeavesOf(_)
RECURSIVE LeavesOfAll(_, _)
\* the leaves reachable in a value, in order: what is neither a non-empty
\* mapping nor a non-empty sequence is a leaf
LeavesOf(v) ==
  IF IsMapping(v) /\ Len(Payload(v)) > 0
  THEN LeavesOfAll([j \in 1..Len(Payload(v)) |-> Payload(v)[j].val], 1)
  ELSE IF IsSequence(v) /\ Len(Payload(v)) > 0
  THEN LeavesOfAll(Payload(v), 1)
  ELSE <<v>>
LeavesOfAll(vs, i) ==
  IF i > Len(vs) THEN <<>> ELSE LeavesOf(vs[i]) \o LeavesOfAll(vs, i + 1)

Count(x, s) == Cardinality({i \in 1..Len(s) : s[i] = x})
SameBag(s, t) ==
  \A x \in {s[i] : i \in 1..Len(s)} \cup {t[i] : i \in 1..Len(t)} : Count(x, s) = Count(x, t)

\* C8: every leaf reachable in the input is in the output under exactly one key:
\* the output's values are the input's leaves, each as often as it occurs (none
\* lost, none overwritten, none repeated).
C8_EveryLeafOnce ==
  fd.pc = "done" => SameBag(ValuesOf(fd.result), LeavesOfAll(ValuesOf(fd.d), 1))

IsFlat(d) == \A i \in 1..Len(d) : ~IsMapping(d[i].val) /\ ~IsSequence(d[i].val)
StrKeys(d) == \A i \in 1..Len(d) : Tag(d[i].key) = "str"
\* dict equality: the same items, in any order
DictEq(a, b) ==
  Len(a) = Len(b) /\ {a[i] : i \in 1..Len(a)} = {b[i] : i \in 1..Len(b)}

\* C9 as stated: with an empty parent, a flat mapping is returned equal to itself.
C9_FlatIdentity_AsStated ==
  (fd.pc = "done" /\ fd.parent = <<>> /\ IsFlat(fd.d)) => DictEq(fd.result, fd.d)

\* C9 amended: with an empty parent, a flat mapping whose keys are all strings
\* is returned equal to itself.
C9_FlatIdentity ==
  (fd.pc = "done" /\ fd.parent = <<>> /\ IsFlat(fd.d) /\ StrKeys(fd.d))
     => DictEq(fd.result, fd.d)

\* a flat two-item mapping with string keys came back equal
C9_Witness ==
  /\ fd.pc = "done" /\ fd.parent = <<>> /\ Len(fd.d) = 2
  /\ IsFlat(fd.d) /\ StrKeys(fd.d) /\ DictEq(fd.result, fd.d)

RECURSIVE NestedMappingOnly(_)
\* a nested mapping: every value is a mapping of the same kind or no sequence
NestedMappingOnly(d) ==
  \A i \in 1..Len(d) :
    /\ ~IsSequence(d[i].val)
    /\ IsMapping(d[i].val) => NestedMappingOnly(Payload(d[i].val))

RECURSIVE AllKeys(_)
AllKeys(d) ==
  UNION {{d[i].key} \cup (IF IsMapping(d[i].val) THEN AllKeys(Payload(d[i].val)) ELSE {})
           : i \in 1..Len(d)}

RECURSIVE KeyPaths(_, _)
\* the key paths of a nested mapping: the keys, each as its text, from the top
\* to each stored value
KeyPaths(d, path) ==
  UNION {IF Truthy(d[i].val) /\ IsMapping(d[i].val)
         THEN KeyPaths(Payload(d[i].val), Append(path, PyStr(Format(d[i].key))))
         ELSE {Append(path, PyStr(Format(d[i].key)))}
           : i \in 1..Len(d)}

Contains(s, sub) ==
  \E i \in 1..(Len(s) - Len(sub) + 1) : SubSeq(s, i, i + Len(sub) - 1) = sub

RECURSIVE Split(_, _)
\* str.split(sep): cut at each occurrence of sep, found from the left
Split(s, sep) ==
  IF ~Contains(s, sep) THEN <<PyStr(s)>>
  ELSE LET i == CHOOSE n \in 1..Len(s) :
                  /\ SubSeq(s, n, n + Len(sep) - 1) = sep
                  /\ \A m \in 1..(n - 1) : SubSeq(s, m, m + Len(sep) - 1) # sep
       IN <<PyStr(SubSeq(s, 1, i - 1))>> \o Split(SubSeq(s, i + Len(sep), Len(s)), sep)

RenestedPaths == {Split(Payload(k), fd.sep) : k \in DictKeys(fd.result)}

KeysLackSeparator(d, sep) == \A k \in AllKeys(d) : ~Contains(Format(k), sep)
KeysLackSeparatorChars(d, sep) ==
  \A k \in AllKeys(d) : \A i \in 1..Len(Format(k)) : \A j \in 1..Len(sep) :
     Format(k)[i] # sep[j]

Whitespace == {" ", "\n", "\t"}

RECURSIVE LStrip(_)
LStrip(s) == IF Len(s) > 0 /\ Head(s) \in Whitespace THEN LStrip(Tail(s)) ELSE s

RECURSIVE RStrip(_)
RStrip(s) ==
  IF Len(s) > 0 /\ s[Len(s)] \in Whitespace THEN RStrip(SubSeq(s, 1, Len(s) - 1)) ELSE s

\* a strip of the right end only, as str.rstrip()
StripRightOnly(s) == RStrip(s)

\* str.strip()
Strip(s) == LStrip(RStrip(s))

Parsed(v) == [ok |-> TRUE, value |-> v]
ParseError == [ok |-> FALSE, value |-> PyNone]

\* the applications system_profiler reports (SPApplicationsDataType)
AppSafari ==
  PyDict(<<Item(Str1("_name"), Str1("Safari")),
           Item(Str1("arch_kind"), Str1("arch_arm_i64")),
           Item(Str1("signed_by"), PyList(<<Str1("Apple"), Str1("Root CA")>>)),
           Item(Str1("version"), Str1("17.0"))>>)
AppUnsigned ==
  PyDict(<<Item(Str1("_name"), Str1("Old")),
           Item(Str1("has64BitIntelCode"), Str1("yes"))>>)

\* the displays system_profiler reports under spdisplays_ndrvs: a built-in
\* retina panel, a television, and an external display behind a DisplayPort
\* adapter that reports no display type
DisplayBuiltin ==
  PyDict(<<Item(Str1("_name"), Str1("Color LCD")),
           Item(Str1("spdisplays_display_type"), PyStr(<<"spdisplays_built-in_", "retina", "LCD">>)),
           Item(Str1("spdisplays_main"), Str1("spdisplays_yes")),
           Item(Str1("spdisplays_online"), PyStr(<<" ", "Online", " ">>)),
           Item(Str1("spdisplays_mirror"), Str1("spdisplays_off")),
           Item(Str1("_spdisplays_display-week"), Str1("0")),
           Item(Str1("_spdisplays_display-year"), Str1("2021")),
           Item(Str1("spdisplays_connection_note"), Str1("internal"))>>)
DisplayTelevision ==
  PyDict(<<Item(Str1("_name"), Str1("TV")),
           Item(Str1("spdisplays_television"), Str1("spdisplays_yes")),
           Item(Str1("spdisplays_builtin"), Str1("spdisplays_no")),
           Item(Str1("spdisplays_rotation"), Str1("spdisplays_supported")),
           Item(Str1("_spdisplays_display-vendor-id"), Str1("756e6b6e")),
           Item(Str1("_spdisplays_displayport_device"),
                PyDict(<<Item(Str1("_name"), Str1("spdisplays_displayport_adapter")),
                         Item(Str1("spdisplays_displayport_current_lanes"), Str1("4"))>>))>>)
DisplayExternal ==
  PyDict(<<Item(Str1("_name"), Str1("DELL")),
           Item(Str1("spdisplays_online"), Str1("spdisplays_yes"))>>)

\* a graphics device with the displays attached to it
Gpu(name, displays) ==
  PyDict(<<Item(Str1("_name"), Str1(name)), Item(Str1("spdisplays_ndrvs"), PyList(displays))>>)
\* a graphics device with no spdisplays_ndrvs entry
GpuHeadless == PyDict(<<Item(Str1("_name"), Str1("GPU0"))>>)

SPDisplays(gpus) == PyDict(<<Item(Str1("SPDisplaysDataType"), PyList(gpus))>>)

\* the documents system_profiler -json prints, each taken as one token, with the
\* value json.loads gives for it
JsonDocuments ==
  <<[text |-> "{SPApplicationsDataType: []}",
     value |-> PyDict(<<Item(Str1("SPApplicationsDataType"), PyList(<<>>))>>)],
    [text |-> "{SPApplicationsDataType: [Safari]}",
     value |-> PyDict(<<Item(Str1("SPApplicationsDataType"), PyList(<<AppSafari>>))>>)],
    [text |-> "{SPApplicationsDataType: [Old, Safari]}",
     value |-> PyDict(<<Item(Str1("SPApplicationsDataType"),
                             PyList(<<AppUnsigned, AppSafari>>))>>)],
    [text |-> "{SPDisplaysDataType: []}", value |-> SPDisplays(<<>>)],
    [text |-> "{SPDisplaysDataType: [GPU0]}", value |-> SPDisplays(<<GpuHeadless>>)],
    [text |-> "{SPDisplaysDataType: [GPU1[Color LCD]]}",
     value |-> SPDisplays(<<Gpu("GPU1", <<DisplayBuiltin>>)>>)],
    [text |-> "{SPDisplaysDataType: [GPU1[Color LCD, TV], GPU0]}",
     value |-> SPDisplays(<<Gpu("GPU1", <<DisplayBuiltin, DisplayTelevision>>), GpuHeadless>>)],
    [text |-> "{SPDisplaysDataType: [GPU1[Color LCD], GPU2[TV]]}",
     value |-> SPDisplays(<<Gpu("GPU1", <<DisplayBuiltin>>), Gpu("GPU2", <<DisplayTelevision>>)>>)],
    [text |-> "{SPDisplaysDataType: [GPU1[DELL]]}",
     value |-> SPDisplays(<<Gpu("GPU1", <<DisplayExternal>>)>>)]>>

\* a parser that gives None for a document it cannot read
JsonLoadsOrNone(s) ==
  LET doc == LStrip(RStrip(s)) IN
  IF doc = <<"{", "}">> THEN Parsed(PyDict(<<>>))
  ELSE IF Len(doc) = 1 /\ doc[1] \in {"0", "1"} THEN Parsed(PyInt(IF doc[1] = "0" THEN 0 ELSE 1))
  ELSE Parsed(PyNone)

\* json.loads on the documents the commands of the model print: an empty object,
\* a digit or a document of system_profiler, with any whitespace around it;
\* everything else is malformed
JsonLoads(s) ==
  LET doc == LStrip(RStrip(s)) IN
  IF doc = <<"{", "}">> THEN Parsed(PyDict(<<>>))
  ELSE IF Len(doc) = 1 /\ doc[1] \in {"0", "1"} THEN Parsed(PyInt(IF doc[1] = "0" THEN 0 ELSE 1))
  ELSE IF Len(doc) = 1 /\ \E i \in 1..Len(JsonDocuments) : JsonDocuments[i].text = doc[1]
  THEN Parsed(JsonDocuments[CHOOSE i \in 1..Len(JsonDocuments) : JsonDocuments[i].text = doc[1]].value)
  ELSE ParseError

PlistDocument == <<"<plist>", "<dict/>", "</plist>">>

\* p.stdout.encode()
Encode(s) == <<"bytes", s>>

\* plistlib.loads on bytes: the document must start the data (plistlib looks for
\* the XML header at offset 0); whitespace may follow it
PlistLoads(b) ==
  LET s == Payload(b) IN
  IF Len(s) >= 3 /\ SubSeq(s, 1, 3) = PlistDocument /\ RStrip(s) = PlistDocument
  THEN Parsed(PyDict(<<>>))
  ELSE ParseError

\* the keyword arguments a wrapper passes on: the decorator's defaults, the
\* caller's capture_output=False, and those of codesign (pipes, no capture_output)
PIPE == PyInt(0 - 1)
KwDefault ==
  <<Item(Str1("capture_output"), PyBool(TRUE)), Item(Str1("encoding"), Str1("utf-8"))>>
KwNoCapture ==
  <<Item(Str1("capture_output"), PyBool(FALSE)), Item(Str1("encoding"), Str1("utf-8"))>>
KwPipes ==
  <<Item(Str1("stdout"), PIPE), Item(Str1("stderr"), PIPE), Item(Str1("encoding"), Str1("utf-8"))>>
KwargsChoices == {KwDefault, KwNoCapture, KwPipes}

\* kwargs.get(name)
KwGet(kwargs, name) ==
  IF DictHas(kwargs, Str1(name)) THEN DictGet(kwargs, Str1(name)) ELSE PyNone

\* subprocess.run captures stdout and stderr with capture_output=True or with pipes
Captures(kwargs) ==
  Truthy(KwGet(kwargs, "capture_output")) \/ DictHas(kwargs, Str1("stdout"))

\* the largest return code a command of the model exits with
MaxReturnCode == 2

StdoutTexts ==
  {<<>>, <<"o", "k">>, <<" ", "o", "k", "\n">>, <<"{", "}", "\n">>, <<"{">>,
   <<"<plist>", "<dict/>", "</plist>", "\n">>}
StderrTexts == {<<>>, <<"b", "a", "d", "\n">>}

\* the subprocess.CompletedProcess objects subprocess.run(cmd, **kwargs) returns
CompletedProcesses(kwargs) ==
  {[returncode |-> rc,
    stdout |-> IF Captures(kwargs) THEN PyStr(o) ELSE PyNone,
    stderr |-> IF Captures(kwargs) THEN PyStr(e) ELSE PyNone]
     : rc \in 0..MaxReturnCode, o \in StdoutTexts, e \in StderrTexts}

PyCompletedProcess(p) == <<"CompletedProcess", p>>

\* valid_fmts = ["json", "plist"]
ReturnFmts == {Str1("json"), Str1("plist")}

\* f"Error [{p.returncode}]: {p.stderr.strip()}"
DiagLine(p) == <<"Error [", IntStr(p.returncode), "]: ", Strip(Payload(p.stderr))>>

NoExc == [type |-> "none", msg |-> <<>>]
Exc(type) == [type |-> type, msg |-> <<>>]

Returned(ret, exc, printed) == [ret |-> ret, exc |-> exc, printed |-> printed]

\* _return(p, fmt, sc, ec, **kwargs): the value returned, the exception raised
\* and the lines printed to sys.stderr
_return(p, fmt, sc, ec, kwargs) ==
  IF Truthy(fmt) /\ fmt \notin ReturnFmts
  THEN Returned(PyNone, Exc("ValueError"), <<>>)
  ELSE IF PyInt(p.returncode) = sc
  THEN IF Truthy(KwGet(kwargs, "capture_output"))
       THEN IF fmt = Str1("plist")
            THEN LET r == PlistLoads(IF Tag(p.stdout) = "bytes" THEN p.stdout
                                     ELSE Encode(Payload(p.stdout)))
                 IN IF r.ok THEN Returned(r.value, NoExc, <<>>)
                    ELSE Returned(PyNone, Exc("InvalidFileException"), <<>>)
            ELSE IF fmt = Str1("json")
            THEN LET r == JsonLoads(Strip(Payload(p.stdout)))
                 IN IF r.ok THEN Returned(r.value, NoExc, <<>>)
                    ELSE Returned(PyNone, Exc("JSONDecodeError"), <<>>)
            ELSE Returned(PyStr(Strip(Payload(p.stdout))), NoExc, <<>>)
       ELSE Returned(PyCompletedProcess(p), NoExc, <<>>)
  ELSE IF p.stderr = PyNone
  THEN Returned(PyNone, Exc("AttributeError"), <<>>)
  ELSE LET first == IF (Truthy(ec) /\ PyInt(p.returncode) = ec) \/ ~(PyInt(p.returncode) = sc)
                    THEN <<DiagLine(p)>> ELSE <<>>
       IN Returned(PyNone, NoExc, first \o <<DiagLine(p)>>)

ReturnInit ==
  /\ \E kwargs \in KwargsChoices : \E p \in CompletedProcesses(kwargs) :
     \E fmt \in {PyNone} \cup ReturnFmts \cup {Str1("xml")} :
     \E sc \in {PyInt(0), PyInt(1)} : \E ec \in {PyNone, PyInt(2)} :
       rt = [p |-> p, fmt |-> fmt, sc |-> sc, ec |-> ec, kwargs |-> kwargs,
             ret |-> PyNone, exc |-> NoExc, pc |-> "call"]
  /\ sys_stderr = <<>>
  /\ fd = FdIdle /\ wr = WrIdle /\ fs = FsIdle /\ io = <<>>
  /\ cd = CdIdle /\ bw = BwIdle /\ _kwargs = KwIdle /\ pr = PrIdle

\* a wrapper's `return _return(p, ..., **kwargs)`
Return ==
  /\ rt.pc = "call"
  /\ LET r == _return(rt.p, rt.fmt, rt.sc, rt.ec, rt.kwargs) IN
       /\ rt' = [rt EXCEPT !.ret = r.ret, !.exc = r.exc, !.pc = "done"]
       /\ sys_stderr' = sys_stderr \o r.printed
  /\ UNCHANGED <<fd, wr, fs, io, cd, bw, _kwargs, pr>>

ReturnNext == Return

SpecReturn == ReturnInit /\ [][ReturnNext]_vars

(***************************************************************************)
(* Properties of _return                                                   *)
(***************************************************************************)
HintOk == rt.fmt = PyNone \/ rt.fmt \in ReturnFmts
Succeeded == PyInt(rt.p.returncode) = rt.sc

\* C3: when the return code differs from the success code, _return writes one
\* diagnostic line 'Error [<returncode>]: <stderr>' to the error stream, returns
\* None and raises nothing.
C3_FailureOneDiagnostic ==
  (rt.pc = "done" /\ HintOk /\ ~Succeeded) =>
     /\ Len(sys_stderr) = 1
     /\ rt.p.stderr # PyNone =>
          sys_stderr[1] = <<"Error [", IntStr(rt.p.returncode), "]: ",
                            LStrip(RStrip(Payload(rt.p.stderr)))>>
     /\ rt.ret = PyNone
     /\ rt.exc = NoExc

\* r is s without its leading and trailing whitespace
IsStripOf(r, s) ==
  \E i \in 1..(Len(s) + 1) : \E j \in 0..Len(s) :
     /\ r = SubSeq(s, i, j)
     /\ \A k \in 1..(i - 1) : s[k] \in Whitespace
     /\ \A k \in (j + 1)..Len(s) : s[k] \in Whitespace
     /\ Len(r) > 0 => (r[1] \notin Whitespace /\ r[Len(r)] \notin Whitespace)

\* the decoded payload the format hint chooses
DecodedReturned ==
  /\ rt.fmt = PyNone =>
       /\ rt.exc = NoExc /\ Tag(rt.ret) = "str"
       /\ IsStripOf(Payload(rt.ret), Payload(rt.p.stdout))
  /\ (rt.fmt = Str1("json") /\ JsonLoads(Payload(rt.p.stdout)).ok) =>
       rt.exc = NoExc /\ rt.ret = JsonLoads(Payload(rt.p.stdout)).value
  /\ (rt.fmt = Str1("plist") /\ PlistLoads(Encode(Payload(rt.p.stdout))).ok) =>
       rt.exc = NoExc /\ rt.ret = PlistLoads(Encode(Payload(rt.p.stdout))).value

RawReturned == rt.exc = NoExc /\ rt.ret = PyCompletedProcess(rt.p)

\* C4 as stated: on success _return writes no diagnostic and returns the payload
\* decoded as the hint says (stripped text, parsed JSON, parsed property list)
\* when the output was captured, the CompletedProcess itself when it was not.
C4_SuccessPayload_AsStated ==
  (rt.pc = "done" /\ HintOk /\ Succeeded) =>
     /\ sys_stderr = <<>>
     /\ IF rt.p.stdout # PyNone THEN DecodedReturned ELSE RawReturned

\* C4 amended: on success _return writes no diagnostic and returns the payload
\* decoded as the hint says when the keyword argument capture_output is true;
\* when capture_output is absent or false it returns the CompletedProcess
\* itself, also when the output was captured through pipes (as codesign does).
C4_SuccessPayload ==
  (rt.pc = "done" /\ HintOk /\ Succeeded) =>
     /\ sys_stderr = <<>>
     /\ IF DictHas(rt.kwargs, Str1("capture_output"))
           /\ DictGet(rt.kwargs, Str1("capture_output")) = PyBool(TRUE)
        THEN DecodedReturned ELSE RawReturned

\* " ok\n" came back as "ok" from a successful command run with the defaults
C4_Witness ==
  /\ rt.pc = "done" /\ Succeeded /\ rt.fmt = PyNone /\ rt.kwargs = KwDefault
  /\ rt.p.stdout = PyStr(<<" ", "o", "k", "\n">>)
  /\ rt.ret = PyStr(<<"o", "k">>) /\ rt.exc = NoExc /\ sys_stderr = <<>>

(***************************************************************************)
(* mixins/reports.py: ReportWriterMixin.write_report                       *)
(***************************************************************************)
\* MunkiReport.__init__: tmp_dir: Path = Path("/tmp/mrclient")
TmpDir == "/tmp/mrclient"

\* self.tmp_dir.joinpath(fp)
JoinPath(dir, fp) == <<dir, fp>>

ReportFiles == {"report.csv", "report.plist"}
ReportPaths == {JoinPath(TmpDir, fp) : fp \in ReportFiles}

\* what a file holds
Absent == <<"absent">>
OldContent == <<"old">>
EmptyFile == <<"empty">>
PartialPlist == <<"partial plist">>
PlistOf(d) == <<"plist", d>>
CsvOf(rows) == <<"csv", rows>>

Effect(fsx, iox, exc) == [fs |-> fsx, io |-> iox, exc |-> exc]

\* fp.open(_mode) for writing: fails when the directory is missing, creates or
\* truncates the file otherwise
Open(fsx, iox, path, mode) ==
  IF fsx.dir_exists
  THEN Effect([fsx EXCEPT !.files[path] = EmptyFile],
              Append(iox, <<"open", path, mode>>), NoExc)
  ELSE Effect(fsx, Append(iox, <<"open", path, mode>>), Exc("FileNotFoundError"))

\* f.write(...) through a writer: the file now holds `content`
WriteFile(e, path, content) ==
  Effect([e.fs EXCEPT !.files[path] = content], Append(e.io, <<"write", path>>), NoExc)

Raise(e, type) == Effect(e.fs, e.io, Exc(type))

IsIterable(x) == Tag(x) \in {"list", "tuple", "set", "dict", "str"}

\* what `for r in data` visits: elements, the keys of a mapping, the characters
\* of a str
Iter(x) ==
  IF Tag(x) = "dict" THEN [i \in 1..Len(Payload(x)) |-> Payload(x)[i].key]
  ELSE IF Tag(x) = "str" THEN [i \in 1..Len(Payload(x)) |-> Str1(Payload(x)[i])]
  ELSE Payload(x)

\* all(isinstance(r, (list, set, tuple)) for r in data)
AllSequences(data) == \A i \in 1..Len(Iter(data)) : IsSequence(Iter(data)[i])

\* all(isinstance(r, (Mapping, MutableMapping)) for r in data)
AllMappings(data) == \A i \in 1..Len(Iter(data)) : IsMapping(Iter(data)[i])

Hashable(x) == Tag(x) \notin {"dict", "list", "set"}

\* _list2csv(fp, data): the file is opened, then csv.Writer, which the csv module
\* does not have (it has csv.writer), raises AttributeError
_list2csv(fsx, iox, fp, data) ==
  LET o == Open(fsx, iox, fp, "w") IN
  IF o.exc # NoExc THEN o ELSE Raise(o, "AttributeError")

\* _dict2csv(fp, fn, data): DictWriter(f, fieldnames=fn); writeheader() writes
\* dict(zip(fn, fn)), a TypeError when a field name cannot be hashed or fn cannot
\* be iterated; then w.writerow() without its row argument, a TypeError
_dict2csv(fsx, iox, fp, fn, data) ==
  LET o == Open(fsx, iox, fp, "w") IN
  IF o.exc # NoExc THEN o
  ELSE IF ~IsIterable(fn) THEN Raise(o, "TypeError")
  ELSE IF \E i \in 1..Len(Iter(fn)) : ~Hashable(Iter(fn)[i]) THEN Raise(o, "TypeError")
  ELSE LET h == WriteFile(o, fp, CsvOf(<<Iter(fn)>>)) IN
       IF ~IsIterable(data) THEN Raise(h, "TypeError")
       ELSE IF Len(Iter(data)) > 0 THEN Raise(h, "TypeError")
       ELSE h

RECURSIVE PlistSerialisable(_)
\* what plistlib.dump writes as XML: str, int, bool, and dicts with str keys,
\* lists and tuples of such values; None and sets raise TypeError
PlistSerialisable(v) ==
  CASE Tag(v) \in {"str", "int", "bool"} -> TRUE
    [] Tag(v) = "dict" ->
         \A i \in 1..Len(Payload(v)) :
            Tag(Payload(v)[i].key) = "str" /\ PlistSerialisable(Payload(v)[i].val)
    [] Tag(v) \in {"list", "tuple"} ->
         \A i \in 1..Len(Payload(v)) : PlistSerialisable(Payload(v)[i])
    [] OTHER -> FALSE

\* UtilsMixin.write_plist(d, fp): open(fp, "wb"), plistlib.dump(d, f)
write_plist(fsx, iox, d, fp) ==
  LET o == Open(fsx, iox, fp, "wb") IN
  IF o.exc # NoExc THEN o
  ELSE IF PlistSerialisable(d) THEN WriteFile(o, fp, PlistOf(d))
  ELSE Raise(WriteFile(o, fp, PartialPlist), "TypeError")

\* a list of valid formats that also lets "xml" through
ValidFmtsWithXml == <<"csv", "plist", "xml">>

\* valid_fmts = ["csv", "plist"]
ValidFmts == <<"csv", "plist">>

\* a test that only asks "fn is None"
FnIsNone(fn) == fn = PyNone

\* if not fn
FnMissing(fn) == ~Truthy(fn)

RECURSIVE JoinTexts(_, _)
\* sep.join(parts), parts being texts
JoinTexts(sep, parts) ==
  IF Len(parts) = 0 THEN <<>>
  ELSE IF Len(parts) = 1 THEN parts[1]
  ELSE parts[1] \o sep \o JoinTexts(sep, Tail(parts))

\* f"'{ft}'"
Quoted(ft) == <<"'", ft, "'">>

\* InvalidReportFormat.__str__
InvalidReportFormatStr(fmt, valid_fmts) ==
  LET fmts == [i \in 1..Len(valid_fmts) |-> Quoted(valid_fmts[i])]
      suffix == IF Len(fmts) > 1
                THEN JoinTexts(<<", ">>, SubSeq(fmts, 1, Len(fmts) - 1))
                       \o <<" or ">> \o fmts[Len(fmts)]
                ELSE JoinTexts(<<", ">>, fmts)
  IN <<"Report format value ">> \o Quoted(fmt) \o <<" invalid, must be one of: ">> \o suffix

\* raise InvalidReportFormat(fmt, valid_fmts)
InvalidReportFormat(fmt, valid_fmts) ==
  [type |-> "InvalidReportFormat", msg |-> InvalidReportFormatStr(fmt, valid_fmts)]

\* raise MissingRequiredFieldnames("write_report", "fn")
MissingRequiredFieldnames(func, arg) ==
  [type |-> "MissingRequiredFieldnames",
   msg |-> <<"TypeError: ", func, " missing 1 required positional argument: ", arg>>]

\* write_report(data, fp, fmt, fn): the file system and the file operations
\* after the call, and the exception it raised
write_report(fsx, iox, data, fp, fmt, fn) ==
  IF ~(\E i \in 1..Len(ValidFmts) : ValidFmts[i] = fmt)
  THEN Effect(fsx, iox, InvalidReportFormat(fmt, ValidFmts))
  ELSE
    LET path == JoinPath(TmpDir, fp)
        start == Effect(fsx, iox, NoExc)
        csv == IF fmt = "csv"
               THEN IF IsIterable(data) /\ AllSequences(data)
                    THEN _list2csv(fsx, iox, path, data)
                    ELSE IF IsIterable(data) /\ AllMappings(data)
                    THEN IF FnMissing(fn)
                         THEN Effect(fsx, iox, MissingRequiredFieldnames("write_report", "fn"))
                         \* self._dict2csv(fp, data, fn): data lands in the
                         \* parameter fn and fn in the parameter data
                         ELSE _dict2csv(fsx, iox, path, data, fn)
                    ELSE start
               ELSE start
    IN IF csv.exc # NoExc THEN csv
       ELSE IF fmt = "plist" THEN write_plist(csv.fs, csv.io, data, path)
       ELSE csv

\* the most rows of the data handed to write_report
MaxRows == 2

RowA1 == PyDict(<<Item(Str1("a"), PyInt(1))>>)
RowANone == PyDict(<<Item(Str1("a"), PyNone)>>)
Rows == {PyList(<<PyInt(1), PyInt(2)>>), PyTuple(<<PyInt(1)>>), RowA1, RowANone}

ReportData ==
  {PyList(rows) : rows \in UNION {[1..n -> Rows] : n \in 0..MaxRows}}
    \cup {RowA1, PyDict(<<>>), PyInt(1), PyTuple(<<RowA1>>)}

Fieldnames == {PyNone, PyList(<<>>), PyList(<<Str1("a")>>)}

FileSystems ==
  {[dir_exists |-> TRUE, files |-> f] : f \in [ReportPaths -> {Absent, OldContent}]}
    \cup {[dir_exists |-> FALSE, files |-> [q \in ReportPaths |-> Absent]]}

ReportInit ==
  /\ \E data \in ReportData : \E fp \in ReportFiles :
     \E fmt \in {"csv", "plist", "xml", "json"} : \E fn \in Fieldnames :
       wr = [data |-> data, fp |-> fp, fmt |-> fmt, fn |-> fn, exc |-> NoExc, pc |-> "call"]
  /\ fs \in FileSystems
  /\ io = <<>>
  /\ fd = FdIdle /\ rt = RtIdle /\ sys_stderr = <<>>
  /\ cd = CdIdle /\ bw = BwIdle /\ _kwargs = KwIdle /\ pr = PrIdle

\* the call write_report(data, fp, fmt, fn), until it returns or raises
WriteReport ==
  /\ wr.pc = "call"
  /\ LET e == write_report(fs, io, wr.data, wr.fp, wr.fmt, wr.fn) IN
       /\ fs' = e.fs
       /\ io' = e.io
       /\ wr' = [wr EXCEPT !.exc = e.exc, !.pc = "done"]
  /\ UNCHANGED <<fd, rt, sys_stderr, cd, bw, _kwargs, pr>>

ReportNext == WriteReport

SpecReport == ReportInit /\ [][ReportNext]_vars

(***************************************************************************)
(* Properties of write_report                                              *)
(***************************************************************************)
Called == wr.pc = "call" /\ wr'.pc = "done"
NoFileTouched == fs' = fs /\ io' = io
Names(msg, ft) == Contains(msg, <<"'", ft, "'">>)

\* C1: write_report with a format other than 'csv' or 'plist' raises
\* InvalidReportFormat, whose message names both 'csv' and 'plist', and no file
\* is opened, created or written, whatever data, fp and fn are.
C1_InvalidFormatRejected ==
  [][(Called /\ wr.fmt \notin {"csv", "plist"}) =>
        /\ wr'.exc.type = "InvalidReportFormat"
        /\ Names(wr'.exc.msg, "csv") /\ Names(wr'.exc.msg, "plist")
        /\ NoFileTouched
    ]_vars

\* 'xml' has been refused with nothing opened
C1_Witness ==
  /\ wr.pc = "done" /\ wr.fmt = "xml" /\ wr.exc.type = "InvalidReportFormat"
  /\ wr.exc.msg = <<"Report format value ", "'", "xml", "'", " invalid, must be one of: ",
                    "'", "csv", "'", " or ", "'", "plist", "'">>
  /\ io = <<>> /\ fs.dir_exists

NonEmptyListOfMappings(data) ==
  /\ Tag(data) = "list" /\ Len(Payload(data)) > 0
  /\ \A i \in 1..Len(Payload(data)) : Tag(Payload(data)[i]) = "dict"

\* C2: write_report with 'csv', a non-empty list of mappings and no field-name
\* list (None or empty) raises MissingRequiredFieldnames, and no file is opened,
\* created or written.
C2_MissingFieldnamesRejected ==
  [][(Called /\ wr.fmt = "csv" /\ NonEmptyListOfMappings(wr.data)
        /\ wr.fn \in {PyNone, PyList(<<>>)}) =>
        /\ wr'.exc.type = "MissingRequiredFieldnames"
        /\ NoFileTouched
    ]_vars

\* a list of two mappings with fn=[] has been refused with nothing opened
C2_Witness ==
  /\ wr.pc = "done" /\ wr.fmt = "csv" /\ wr.data = PyList(<<RowA1, RowANone>>)
  /\ wr.fn = PyList(<<>>) /\ wr.exc.type = "MissingRequiredFieldnames"
  /\ io = <<>> /\ fs.dir_exists

(***************************************************************************)
(* The dictionary cleaner clean_dict.  Its code is not among the sources;  *)
(* it is modelled from its contract: "given a nested mapping, recursively  *)
(* remove keys whose value is absent or an empty string; recurse into      *)
(* nested mappings, list, tuple, and set values, dropping empty nested     *)
(* results.  Non-collection, non-absent values pass through unchanged.     *)
(* Returns a new mapping; does not mutate the input."  The contract leaves *)
(* open whether an absent or empty-string ELEMENT of a list, tuple or set  *)
(* is removed as a key with such a value is; `strict` says that it is, and *)
(* both readings are modelled.                                             *)
(***************************************************************************)
\* a test that only asks "is None"
BlankNoneOnly(v) == v = PyNone

\* the value is absent or an empty string
Blank(v) == v = PyNone \/ v = PyStr(<<>>)

IsCollection(v) == IsMapping(v) \/ IsSequence(v)

\* a test of the value before it was cleaned
DroppedIfEmptyBefore(orig, cleaned) == IsCollection(orig) /\ ~Truthy(orig)

\* a nested result is dropped when it is empty once cleaned
Dropped(orig, cleaned) == IsCollection(cleaned) /\ ~Truthy(cleaned)

RECURSIVE Dedupe(_)
\* a set holds equal elements once
Dedupe(xs) ==
  IF Len(xs) = 0 THEN <<>>
  ELSE LET rest == Dedupe(SubSeq(xs, 1, Len(xs) - 1)) IN
       IF \E i \in 1..Len(rest) : rest[i] = xs[Len(xs)] THEN rest
       ELSE Append(rest, xs[Len(xs)])

RECURSIVE clean_dict(_, _)
RECURSIVE CleanItems(_, _, _, _)
RECURSIVE CleanElems(_, _, _, _)
RECURSIVE CleanValue(_, _)

\* the cleaned form of a value that is kept: a nested mapping is cleaned, a
\* list, tuple or set is rebuilt from its cleaned elements, anything else
\* passes through
CleanValue(v, strict) ==
  IF IsMapping(v) THEN PyDict(clean_dict(Payload(v), strict))
  ELSE IF IsSequence(v)
  THEN LET elems == CleanElems(<<>>, Payload(v), 1, strict) IN
       IF Tag(v) = "set" THEN PySet(Dedupe(elems)) ELSE <<Tag(v), elems>>
  ELSE v

\* the elements of a list, tuple or set, cleaned
CleanElems(result, xs, i, strict) ==
  IF i > Len(xs) THEN result
  ELSE LET c == CleanValue(xs[i], strict) IN
       CleanElems(IF (strict /\ Blank(xs[i])) \/ Dropped(xs[i], c)
                  THEN result ELSE Append(result, c),
                  xs, i + 1, strict)

\* the items of a mapping, cleaned, in their order
CleanItems(result, d, i, strict) ==
  IF i > Len(d) THEN result
  ELSE LET c == CleanValue(d[i].val, strict) IN
       CleanItems(IF Blank(d[i].val) \/ Dropped(d[i].val, c)
                  THEN result ELSE Append(result, Item(d[i].key, c)),
                  d, i + 1, strict)

\* clean_dict(d): a new mapping
clean_dict(d, strict) == CleanItems(<<>>, d, 1, strict)

\* the most items of a mapping handed to the cleaner (the example has four)
MaxCleanItems == 2

CleanKeys == <<Str1("a"), Str1("b"), Str1("c")>>

BNone == <<Item(Str1("b"), PyNone)>>
BDeepBlank == <<Item(Str1("b"), PyDict(<<Item(Str1("c"), PyStr(<<>>))>>))>>

CleanValues ==
  {PyNone, PyStr(<<>>), PyInt(0), PyInt(1), PyBool(FALSE), Str1("x"),
   PyDict(<<>>), PyDict(BNone), PyDict(InnerB1), PyDict(BDeepBlank),
   PyDict(<<Item(Str1("b"), PyInt(1)), Item(Str1("c"), PyNone)>>),
   PyList(<<>>), PyList(<<PyNone>>), PyList(<<PyDict(<<>>)>>),
   PyList(<<PyDict(BNone), PyInt(1)>>), PyList(<<PyList(<<>>)>>),
   PyTuple(<<PyStr(<<>>)>>), PyTuple(<<PyInt(1), PyStr(<<>>)>>),
   PySet(<<>>), PySet(<<PyInt(1)>>),
   PySet(<<PyTuple(<<PyInt(1), PyNone>>), PyTuple(<<PyInt(1)>>)>>)}

CleanKeyPicks(n) ==
  {ks \in [1..n -> 1..Len(CleanKeys)] : \A i \in 1..n : \A j \in 1..n : i < j => ks[i] < ks[j]}

CleanExampleInput ==
  <<Item(Str1("a"), PyNone), Item(Str1("b"), PyStr(<<>>)),
    Item(Str1("c"), PyInt(1)), Item(Str1("d"), PyDict(<<>>))>>
CleanExampleOutput == <<Item(Str1("c"), PyInt(1))>>

CleanInputs ==
  UNION {{[i \in 1..n |-> Item(CleanKeys[ks[i]], vs[i])]
            : ks \in CleanKeyPicks(n), vs \in [1..n -> CleanValues]}
           : n \in 0..MaxCleanItems}
    \cup {CleanExampleInput}

CleanInit ==
  /\ \E d \in CleanInputs : \E strict \in BOOLEAN :
       cd = [d |-> d, strict |-> strict, result |-> <<>>, again |-> <<>>, pc |-> "call"]
  /\ fd = FdIdle /\ wr = WrIdle /\ fs = FsIdle /\ io = <<>>
  /\ rt = RtIdle /\ sys_stderr = <<>>
  /\ bw = BwIdle /\ _kwargs = KwIdle /\ pr = PrIdle

\* result = clean_dict(d)
CleanDict ==
  /\ cd.pc = "call"
  /\ cd' = [cd EXCEPT !.result = clean_dict(cd.d, cd.strict), !.pc = "cleaned"]
  /\ UNCHANGED <<fd, wr, fs, io, rt, sys_stderr, bw, _kwargs, pr>>

\* clean_dict(result): the caller cleans what the cleaner returned
CleanAgain ==
  /\ cd.pc = "cleaned"
  /\ cd' = [cd EXCEPT !.again = clean_dict(cd.result, cd.strict), !.pc = "done"]
  /\ UNCHANGED <<fd, wr, fs, io, rt, sys_stderr, bw, _kwargs, pr>>

CleanNext == CleanDict \/ CleanAgain

SpecClean == CleanInit /\ [][CleanNext]_vars

(***************************************************************************)
(* Properties of the dictionary cleaner                                    *)
(***************************************************************************)
RECURSIVE NoBlankValue(_)
\* no mapping inside v, at any level, has a key whose value is None or ""
NoBlankValue(v) ==
  IF IsMapping(v)
  THEN \A i \in 1..Len(Payload(v)) :
          ~(Payload(v)[i].val = PyNone) /\ ~(Payload(v)[i].val = PyStr(<<>>))
            /\ NoBlankValue(Payload(v)[i].val)
  ELSE IF IsSequence(v)
  THEN \A i \in 1..Len(Payload(v)) : NoBlankValue(Payload(v)[i])
  ELSE TRUE

IsEmptyCollection(v) ==
  Tag(v) \in {"dict", "list", "tuple", "set"} /\ Len(Payload(v)) = 0

RECURSIVE NoEmptyInside(_)
\* nothing nested in v, at any level, is an empty mapping, list, tuple or set
NoEmptyInside(v) ==
  IF IsMapping(v)
  THEN \A i \in 1..Len(Payload(v)) :
          ~IsEmptyCollection(Payload(v)[i].val) /\ NoEmptyInside(Payload(v)[i].val)
  ELSE IF IsSequence(v)
  THEN \A i \in 1..Len(Payload(v)) :
          ~IsEmptyCollection(Payload(v)[i]) /\ NoEmptyInside(Payload(v)[i])
  ELSE TRUE

RECURSIVE Pristine(_)
\* a value with nothing to clean: not None, not "", not an empty collection,
\* and holding only such values
Pristine(v) ==
  /\ ~(v = PyNone) /\ ~(v = PyStr(<<>>)) /\ ~IsEmptyCollection(v)
  /\ IsMapping(v) => \A i \in 1..Len(Payload(v)) : Pristine(Payload(v)[i].val)
  /\ IsSequence(v) => \A i \in 1..Len(Payload(v)) : Pristine(Payload(v)[i])

\* C11: the cleaner returns a mapping in which no key, at any nesting level,
\* has the value None or "", and in which no empty nested mapping, list, tuple
\* or set remains; its keys are keys of the input, a key whose value is None or
\* "" is gone, a value with nothing to clean is kept unchanged under its key;
\* the input is not changed; and {"a": None, "b": "", "c": 1, "d": {}} is
\* cleaned to {"c": 1}.
C11_Cleaned ==
  [][(cd.pc = "call" /\ cd'.pc = "cleaned") =>
        /\ cd'.d = cd.d
        /\ NoBlankValue(PyDict(cd'.result))
        /\ NoEmptyInside(PyDict(cd'.result))
        /\ DictKeys(cd'.result) \subseteq DictKeys(cd.d)
        /\ \A i \in 1..Len(cd.d) :
             /\ (cd.d[i].val = PyNone \/ cd.d[i].val = PyStr(<<>>))
                   => ~DictHas(cd'.result, cd.d[i].key)
             /\ Pristine(cd.d[i].val) => Holds(cd'.result, cd.d[i].key, cd.d[i].val)
        /\ cd.d = CleanExampleInput => cd'.result = CleanExampleOutput
    ]_vars

\* the example of C11 has been cleaned
C11_Witness ==
  cd.pc = "cleaned" /\ cd.d = CleanExampleInput /\ cd.result = CleanExampleOutput

\* C12: cleaning the result of cleaning d gives the result of cleaning d.
C12_Idempotent == cd.pc = "done" => cd.again = cd.result

\* {"a": [{"b": None}, 1], "b": {"b": {"c": ""}}} was cleaned to {"a": [1]},
\* and cleaning that again changed nothing
C12_Witness ==
  /\ cd.pc = "done"
  /\ cd.d = <<Item(Str1("a"), PyList(<<PyDict(BNone), PyInt(1)>>)),
              Item(Str1("b"), PyDict(BDeepBlank))>>
  /\ cd.result = <<Item(Str1("a"), PyList(<<PyInt(1)>>))>>
  /\ cd.again = cd.result

(***************************************************************************)
(* Properties of the csv branches of write_report                          *)
(***************************************************************************)
ListOfSequences(data) ==
  Tag(data) = "list" /\ \A i \in 1..Len(Payload(data)) : IsSequence(Payload(data)[i])

\* the file the call writes to
ReportPath == JoinPath(TmpDir, wr.fp)

\* C13: write_report with 'csv' and a list whose elements are all sequences
\* completes without error, and the file at tmp_dir/fp then holds one row per
\* element of data, in order, with that element's values.
C13_ListRowsWritten ==
  [][(Called /\ wr.fmt = "csv" /\ ListOfSequences(wr.data) /\ fs.dir_exists) =>
        /\ wr'.exc = NoExc
        /\ fs'.files[ReportPath] =
             CsvOf([i \in 1..Len(Payload(wr.data)) |-> Payload(Payload(wr.data)[i])])
    ]_vars

\* the row DictWriter writes for a mapping: its value for each field name
RowFor(row, fn) ==
  [j \in 1..Len(Payload(fn)) |->
     IF DictHas(Payload(row), Payload(fn)[j]) THEN DictGet(Payload(row), Payload(fn)[j])
     ELSE PyStr(<<>>)]

\* C14: write_report with 'csv', a non-empty list of mappings and a field-name
\* list fn completes, and the file at tmp_dir/fp then holds the header row fn
\* followed by one row per mapping of data.
C14_HeaderAndRowsWritten ==
  [][(Called /\ wr.fmt = "csv" /\ NonEmptyListOfMappings(wr.data)
        /\ Tag(wr.fn) = "list" /\ Len(Payload(wr.fn)) > 0 /\ fs.dir_exists) =>
        /\ wr'.exc = NoExc
        /\ fs'.files[ReportPath] =
             CsvOf(<<Payload(wr.fn)>>
                     \o [i \in 1..Len(Payload(wr.data)) |-> RowFor(Payload(wr.data)[i], wr.fn)])
    ]_vars

(***************************************************************************)
(* wrappers/binaries.py: the decorated wrappers airport and                *)
(* assetcachemanagerutil.  The decorator _default_subprocess_kwargs gives  *)
(* each decorated function one _kwargs dict, made when the module is       *)
(* imported and kept for the life of the process; inner() updates it with  *)
(* the caller's keyword arguments and calls the wrapper with it.           *)
(***************************************************************************)
WrapperNames == {"airport", "assetcachemanagerutil"}

\* @_default_subprocess_kwargs(capture_output=True, encoding="utf-8")
DeclaredDefaults(name) == KwDefault

AirportPath ==
  "/System/Library/PrivateFrameworks/Apple80211.framework/Versions/Current/Resources/airport"

\* the binary assetcachemanagerutil runs
AssetCachePath == "/usr/bin/AssetCacheLocatorUtil"

\* the positional arguments a caller gives
AirportArgs == {<<>>, <<"-I">>}
AssetCacheArgs ==
  {<<>>, <<"status">>, <<"-l">>, <<"status", "--linger">>, <<"-l", "--linger">>}

\* the keyword arguments a caller gives
CallerKwargs ==
  {<<>>,
   <<Item(Str1("capture_output"), PyBool(FALSE))>>,
   <<Item(Str1("encoding"), Str1("latin1"))>>,
   <<Item(Str1("capture_output"), PyBool(FALSE)), Item(Str1("encoding"), Str1("latin1"))>>}

\* what subprocess.run(cmd, **kwargs) returns: the command exits 0 or 1, having
\* printed a JSON object or the text "ok"
RunResults(kwargs) ==
  {[returncode |-> rc,
    stdout |-> IF Captures(kwargs) THEN PyStr(o) ELSE PyNone,
    stderr |-> IF Captures(kwargs)
               THEN PyStr(IF rc = 0 THEN <<>> ELSE <<"b", "a", "d", "\n">>)
               ELSE PyNone]
     : rc \in {0, 1}, o \in {<<"{", "}", "\n">>, <<"o", "k">>}}

\* the most lines kept of sys.stderr while wrappers are called
MaxStderrLines == 4

NoProcess == [returncode |-> 0, stdout |-> PyNone, stderr |-> PyNone]

\* x in args
InArgs(x, args) == \E i \in 1..Len(args) : args[i] = x

\* the record of a call: what the caller gave, what inner() passed on, the
\* command run (if any), its result, and how the call ended
WrapperCall(name, args, kwargs, passed, ran, cmd, p, r) ==
  [name |-> name, args |-> args, kwargs |-> kwargs, passed |-> passed,
   ran |-> ran, cmd |-> cmd, p |-> p, ret |-> r.ret, exc |-> r.exc, pc |-> "returned"]

WrapInit ==
  /\ _kwargs = [name \in WrapperNames |-> DeclaredDefaults(name)]
  /\ bw = [name |-> "none", args |-> <<>>, kwargs |-> <<>>, passed |-> <<>>,
           ran |-> FALSE, cmd |-> <<>>, p |-> NoProcess, ret |-> PyNone,
           exc |-> NoExc, pc |-> "imported"]
  /\ sys_stderr = <<>>
  /\ fd = FdIdle /\ wr = WrIdle /\ fs = FsIdle /\ io = <<>>
  /\ rt = RtIdle /\ cd = CdIdle /\ pr = PrIdle

\* inner: _kwargs.update(kwargs); return fn(args, _kwargs)
Inner(name, kwargs) == DictUpdate(_kwargs[name], kwargs)

\* airport: cmd = [path, args...]; p = subprocess.run(cmd, kwargs); _return(p, kwargs)
Airport ==
  /\ Len(sys_stderr) < MaxStderrLines
  /\ \E args \in AirportArgs : \E kwargs \in CallerKwargs :
       LET passed == Inner("airport", kwargs)
           cmd == <<AirportPath>> \o args
       IN /\ _kwargs' = [_kwargs EXCEPT !["airport"] = passed]
          /\ \E p \in RunResults(passed) :
               LET r == _return(p, PyNone, PyInt(0), PyNone, passed) IN
                 /\ bw' = WrapperCall("airport", args, kwargs, passed, TRUE, cmd, p, r)
                 /\ sys_stderr' = sys_stderr \o r.printed
  /\ UNCHANGED <<fd, wr, fs, io, rt, cd, pr>>

\* assetcachemanagerutil: args is the tuple of the positional
\* arguments, and a tuple has no remove()
AssetCacheManagerUtil ==
  /\ Len(sys_stderr) < MaxStderrLines
  /\ \E args \in AssetCacheArgs : \E kwargs \in CallerKwargs :
       LET passed == Inner("assetcachemanagerutil", kwargs)
           cmd == <<AssetCachePath, "--json">> \o args
       IN /\ _kwargs' = [_kwargs EXCEPT !["assetcachemanagerutil"] = passed]
          /\ IF InArgs("-l", args) \/ InArgs("--linger", args)
             THEN /\ bw' = WrapperCall("assetcachemanagerutil", args, kwargs, passed,
                                       FALSE, <<>>, NoProcess,
                                       Returned(PyNone, Exc("AttributeError"), <<>>))
                  /\ sys_stderr' = sys_stderr
             ELSE \E p \in RunResults(passed) :
                    LET r == _return(p, Str1("json"), PyInt(0), PyNone, passed) IN
                      /\ bw' = WrapperCall("assetcachemanagerutil", args, kwargs, passed,
                                           TRUE, cmd, p, r)
                      /\ sys_stderr' = sys_stderr \o r.printed
  /\ UNCHANGED <<fd, wr, fs, io, rt, cd, pr>>

WrapNext == Airport \/ AssetCacheManagerUtil

SpecWrap == WrapInit /\ [][WrapNext]_vars

(***************************************************************************)
(* Properties of the decorated wrappers                                    *)
(***************************************************************************)
\* a step in which a wrapper was called
WrapperCalled == bw'.pc = "returned" /\ <<bw, _kwargs, sys_stderr>> # <<bw', _kwargs', sys_stderr'>>

\* C15: in every call of a wrapper, each keyword argument the caller supplies is
\* passed on with the caller's value, and each declared default the caller does
\* not supply (capture_output=True, encoding='utf-8') is passed on unchanged;
\* the command is run with these keyword arguments.
C15_OverridesAndDefaults ==
  [][WrapperCalled =>
       LET declared == DeclaredDefaults(bw'.name) IN
       /\ \A k \in DictKeys(bw'.kwargs) :
            Holds(bw'.passed, k, DictGet(bw'.kwargs, k))
       /\ \A k \in DictKeys(declared) \ DictKeys(bw'.kwargs) :
            Holds(bw'.passed, k, DictGet(declared, k))
       /\ bw'.ran => bw'.p \in RunResults(bw'.passed)
    ]_vars

RECURSIVE WithoutLinger(_)
\* the arguments that are neither -l nor --linger, in order
WithoutLinger(args) ==
  IF Len(args) = 0 THEN <<>>
  ELSE IF Head(args) \in {"-l", "--linger"} THEN WithoutLinger(Tail(args))
  ELSE <<Head(args)>> \o WithoutLinger(Tail(args))

\* C20: a call of assetcachemanagerutil whose arguments include -l or --linger
\* runs the binary with --json and the remaining arguments, neither -l nor
\* --linger among them, and returns the parsed JSON dictionary when the command
\* succeeds with its output captured.
C20_LingerRemoved ==
  [][(WrapperCalled /\ bw'.name = "assetcachemanagerutil"
        /\ (InArgs("-l", bw'.args) \/ InArgs("--linger", bw'.args))) =>
       /\ bw'.ran
       /\ Len(bw'.cmd) >= 2
       /\ Tail(bw'.cmd) = <<"--json">> \o WithoutLinger(bw'.args)
       /\ ~InArgs("-l", bw'.cmd) /\ ~InArgs("--linger", bw'.cmd)
       /\ (bw'.p.returncode = 0 /\ bw'.p.stdout = PyStr(<<"{", "}", "\n">>))
            => (bw'.exc = NoExc /\ bw'.ret = PyDict(<<>>))
    ]_vars

(***************************************************************************)
(* Malformed output of a successful command                                *)
(***************************************************************************)
\* the outputs of the model that are a JSON document, a property list
JsonTexts == {<<"{", "}", "\n">>}
PlistTexts == {<<"<plist>", "<dict/>", "</plist>", "\n">>}

\* the output is not what the format hint names
Malformed ==
  \/ rt.fmt = Str1("json") /\ Payload(rt.p.stdout) \notin JsonTexts
  \/ rt.fmt = Str1("plist") /\ Payload(rt.p.stdout) \notin PlistTexts

\* the parse failure reaches the caller: an exception, nothing returned, no
\* diagnostic written
ParseFailurePropagated ==
  /\ rt.fmt = Str1("json") => rt.exc = Exc("JSONDecodeError")
  /\ rt.fmt = Str1("plist") => rt.exc = Exc("InvalidFileException")
  /\ rt.exc # NoExc
  /\ sys_stderr = <<>>

\* C16 as stated: when the command exits with the success code and its captured
\* output is not valid JSON (hint 'json') or not a valid property list (hint
\* 'plist'), _return raises the parse failure; it returns nothing and writes no
\* diagnostic.
C16_ParseFailurePropagates_AsStated ==
  (rt.pc = "done" /\ Succeeded /\ rt.p.stdout # PyNone /\ Malformed)
     => ParseFailurePropagated

\* C16 amended: the same when the output was captured because the keyword
\* argument capture_output is true; output captured through stdout=PIPE alone is
\* not parsed, and the CompletedProcess is returned whatever it holds.
C16_ParseFailurePropagates ==
  /\ (rt.pc = "done" /\ Succeeded /\ rt.p.stdout # PyNone /\ Malformed
        /\ KwGet(rt.kwargs, "capture_output") = PyBool(TRUE))
       => ParseFailurePropagated
  /\ (rt.pc = "done" /\ Succeeded /\ rt.p.stdout # PyNone /\ Malformed
        /\ KwGet(rt.kwargs, "capture_output") # PyBool(TRUE))
       => (RawReturned /\ sys_stderr = <<>>)

\* the output "{" of a successful command run with the defaults and the hint
\* 'json' has raised JSONDecodeError
C16_Witness ==
  /\ rt.pc = "done" /\ Succeeded /\ rt.kwargs = KwDefault /\ rt.fmt = Str1("json")
  /\ rt.p.stdout = PyStr(<<"{">>)
  /\ rt.exc = Exc("JSONDecodeError") /\ sys_stderr = <<>>

(***************************************************************************)
(* The parsers of command output: WiFiReport._parse_airport,               *)
(* CurrentUserMixin.has_current_user and ApplicationsReport.report_data.   *)
(* The text of airport and scutil is a sequence of characters.             *)
(***************************************************************************)
RECURSIVE SplitLines(_)
\* str.splitlines(), the line break being "\n"
SplitLines(s) ==
  IF Len(s) = 0 THEN <<>>
  ELSE IF \A i \in 1..Len(s) : s[i] # "\n" THEN <<s>>
  ELSE LET n == CHOOSE i \in 1..Len(s) : s[i] = "\n" /\ \A m \in 1..(i - 1) : s[m] # "\n"
       IN <<SubSeq(s, 1, n - 1)>> \o SplitLines(SubSeq(s, n + 1, Len(s)))

\* str.startswith(prefix)
StartsWith(s, prefix) == Len(s) >= Len(prefix) /\ SubSeq(s, 1, Len(prefix)) = prefix

\* str.removeprefix(prefix)
RemovePrefix(s, prefix) ==
  IF StartsWith(s, prefix) THEN SubSeq(s, Len(prefix) + 1, Len(s)) ELSE s

UpperChars == <<"A", "B", "C", "D", "E", "F", "G", "H", "I", "J", "K", "L", "M", "N", "O", "P", "Q", "R", "S", "T", "U", "V", "W", "X", "Y", "Z">>
LowerChars == <<"a", "b", "c", "d", "e", "f", "g", "h", "i", "j", "k", "l", "m", "n", "o", "p", "q", "r", "s", "t", "u", "v", "w", "x", "y", "z">>

\* str.lower()
Lower(s) ==
  [i \in 1..Len(s) |->
     IF \E j \in 1..Len(UpperChars) : UpperChars[j] = s[i]
     THEN LowerChars[CHOOSE j \in 1..Len(UpperChars) : UpperChars[j] = s[i]]
     ELSE s[i]]

\* str.replace(old, new), old and new being one character
ReplaceChar(s, old, new) == [i \in 1..Len(s) |-> IF s[i] = old THEN new ELSE s[i]]

RECURSIVE DigitsValue(_)
DigitsValue(s) ==
  IF Len(s) = 0 THEN 0
  ELSE 10 * DigitsValue(SubSeq(s, 1, Len(s) - 1))
         + ((CHOOSE j \in 1..10 : DigitChars[j] = s[Len(s)]) - 1)

AllDigits(s) ==
  Len(s) > 0 /\ \A i \in 1..Len(s) : \E j \in 1..10 : DigitChars[j] = s[i]

\* int(text): whitespace around an optional sign and decimal digits; anything
\* else raises ValueError
ParseInt(text) ==
  LET s == Strip(text)
      signed == Len(s) > 0 /\ s[1] \in {"-", "+"}
      digits == IF signed THEN Tail(s) ELSE s
  IN IF AllDigits(digits)
     THEN Parsed(IF signed /\ s[1] = "-" THEN 0 - DigitsValue(digits) ELSE DigitsValue(digits))
     ELSE ParseError

\* int(x) of a value a result holds
IntOf(v) == IF Tag(v) = "int" THEN Parsed(Payload(v)) ELSE ParseInt(Payload(v))

RECURSIVE ConcatTexts(_)
\* "".join(parts)
ConcatTexts(parts) ==
  IF Len(parts) = 0 THEN <<>> ELSE Payload(Head(parts)) \o ConcatTexts(Tail(parts))

\* a del that removes nothing
DictDelNothing(items, k) == items

\* del d[k]
DictDel(items, k) == SelectSeq(items, LAMBDA it : it.key # k)

\* what a parser gives back: the value returned or the exception raised
Outcome(ret, exc) == [ret |-> ret, exc |-> exc]

\* _AIRPORT_ATTR_MAP
AirportAttrMap ==
  <<Item(PyStr(<<"8", "0", "2", ".", "1", "1", " ", "a", "u", "t", "h">>), PyStr(<<"x", "8", "0", "2", "_", "1", "1", "_", "a", "u", "t", "h">>))>>

\* a cleaning of the key that skips _AIRPORT_ATTR_MAP
CleanKeyUnmapped(s) == ReplaceChar(ReplaceChar(Lower(s), ".", "_"), " ", "_")

\* _clean_airport_key(s)
_clean_airport_key(s) ==
  LET mapped == IF DictHas(AirportAttrMap, PyStr(s))
                THEN Payload(DictGet(AirportAttrMap, PyStr(s))) ELSE s
  IN ReplaceChar(ReplaceChar(Lower(mapped), ".", "_"), " ", "_")

\* the body of `for line in data.splitlines()`
AirportLine(result, line) ==
  LET parts == Split(Strip(line), <<":", " ">>)
      key == Payload(Head(parts))
      val == Tail(parts)
  IN IF Len(val) = 0 THEN result
     ELSE LET joined == ConcatTexts(val)
              n == ParseInt(joined)
          IN DictSet(result, PyStr(_clean_airport_key(key)),
                     IF n.ok THEN PyInt(n.value) ELSE PyStr(joined))

RECURSIVE AirportLines(_, _, _)
AirportLines(result, lines, i) ==
  IF i > Len(lines) THEN result
  ELSE AirportLines(AirportLine(result, lines[i]), lines, i + 1)

StateOff == <<Item(PyStr(<<"s", "t", "a", "t", "e">>), PyStr(<<"o", "f", "f">>))>>

KeyRssi == PyStr(<<"a", "g", "r", "c", "t", "l", "r", "s", "s", "i">>)
KeyNoise == PyStr(<<"a", "g", "r", "c", "t", "l", "n", "o", "i", "s", "e">>)
KeySnr == PyStr(<<"s", "n", "r">>)
KeyBssid == PyStr(<<"b", "s", "s", "i", "d">>)

\* WiFiReport._parse_airport, data being what airport("-I") returned
_parse_airport(data) ==
  IF Tag(data) # "str" THEN Outcome(PyNone, Exc("TypeError"))
  ELSE IF Contains(Payload(data), <<"A", "i", "r", "P", "o", "r", "t", ":", " ", "O", "f", "f">>)
          \/ Contains(Payload(data), <<"A", "i", "r", "P", "o", "r", "t", " ", "i", "s", " ", "O", "f", "f">>)
  THEN Outcome(PyDict(StateOff), NoExc)
  ELSE LET result == AirportLines(StateOff, SplitLines(Payload(data)), 1)
           rssi == IntOf(IF DictHas(result, KeyRssi) THEN DictGet(result, KeyRssi) ELSE PyInt(0))
           noise == IntOf(IF DictHas(result, KeyNoise) THEN DictGet(result, KeyNoise) ELSE PyInt(0))
       IN IF ~rssi.ok \/ ~noise.ok THEN Outcome(PyNone, Exc("ValueError"))
          ELSE Outcome(PyDict(DictDel(DictSet(result, KeySnr, PyInt(rssi.value - noise.value)),
                                      KeyBssid)),
                       NoExc)

NamePrefix == <<"N", "a", "m", "e", " ", ":", " ">>

\* not username == "" or not username.startswith("_")
UserTest(username) == ~(username = <<>>) \/ ~StartsWith(username, <<"_">>)

RECURSIVE UserLines(_, _)
\* the loop over the stripped lines, up to its return
UserLines(lines, i) ==
  IF i > Len(lines) THEN PyNone
  ELSE LET line == Strip(lines[i])
           username == Strip(RemovePrefix(line, NamePrefix))
       IN IF StartsWith(line, NamePrefix) /\ Len(username) > 0
          THEN PyBool(UserTest(username))
          ELSE UserLines(lines, i + 1)

\* CurrentUserMixin.has_current_user, data being what scutil returned
has_current_user(data) ==
  IF Tag(data) = "CompletedProcess" THEN Outcome(PyNone, Exc("AttributeError"))
  ELSE IF ~Truthy(data) THEN Outcome(PyNone, NoExc)
  ELSE Outcome(UserLines(SplitLines(Payload(data)), 1), NoExc)

(***************************************************************************)
(* reports/applications.py: ApplicationsReport.report_data                 *)
(***************************************************************************)
\* the keys of _SP_APPLICATION_ATTRS_MAP, in the order .items() gives them
SpApplicationAttrs ==
  <<"_name", "arch", "arch_kind", "info", "lastModified", "obtained_from", "path",
    "runtime_environment", "signed_by", "version">>

\* _ARCH_64_VALUES
Arch64Values == {Str1("arch_i64"), Str1("arch_i32_i64"), Str1("arch_arm_i64")}

\* d.get(key, default)
Get(d, key, default) ==
  IF DictHas(Payload(d), Str1(key)) THEN DictGet(Payload(d), Str1(key)) ELSE default

\* _app_has_64bit_code(app_dict)
_app_has_64bit_code(app) ==
  LET intel64 == Get(app, "has64BitIntelCode", Str1("no"))
      arch64 == Get(app, "arch_kind", PyNone)
  IN IF intel64 = Str1("yes") \/ (Truthy(arch64) /\ arch64 \in Arch64Values)
     THEN PyInt(1) ELSE PyInt(0)

\* a local variable that no statement has assigned yet
Unbound == <<"unbound", <<>>>>

\* the state of report_data's loops: the local `value`, the record `data` being
\* built and the exception raised
AppState(value, data, exc) == [value |-> value, data |-> data, exc |-> exc]

\* "; ".join(x): the texts of a list, or the characters of a str
JoinSignedBy(x) ==
  PyStr(JoinTexts(<<"; ">>,
          [i \in 1..Len(Payload(x)) |->
             IF Tag(x) = "str" THEN <<Payload(x)[i]>> ELSE Payload(Payload(x)[i])]))

\* the body of `for sp_key, db_attr in ...items()`: value is assigned only for
\* "signed_by"; data[sp_key] = value reads it for every key
AppAttr(st, app, sp_key) ==
  IF st.exc # NoExc THEN st
  ELSE LET signed == Get(app, sp_key, PyNone)
           joinable == Tag(signed) \in {"list", "tuple", "set", "str"}
           value == IF sp_key = "signed_by" /\ joinable THEN JoinSignedBy(signed)
                    ELSE st.value
       IN IF sp_key = "signed_by" /\ ~joinable THEN AppState(st.value, st.data, Exc("TypeError"))
          ELSE IF value = Unbound THEN AppState(value, st.data, Exc("UnboundLocalError"))
          ELSE AppState(value, DictSet(st.data, Str1(sp_key), value), NoExc)

RECURSIVE AppAttrs(_, _, _)
AppAttrs(st, app, j) ==
  IF j > Len(SpApplicationAttrs) THEN st
  ELSE AppAttrs(AppAttr(st, app, SpApplicationAttrs[j]), app, j + 1)

RECURSIVE AppLoop(_, _, _, _)
\* for app in applications: ...; result.append(data)
AppLoop(result, value, apps, i) ==
  IF i > Len(apps) THEN Outcome(PyList(result), NoExc)
  ELSE LET data == <<Item(Str1("has64bit"), _app_has_64bit_code(apps[i]))>>
           st == AppAttrs(AppState(value, data, NoExc), apps[i], 1)
       IN IF st.exc # NoExc THEN Outcome(PyNone, st.exc)
          ELSE AppLoop(Append(result, PyDict(st.data)), st.value, apps, i + 1)

\* ApplicationsReport.report_data, sp being what system_profiler(dt) returned
ApplicationsReportData(sp) ==
  IF Tag(sp) # "dict" THEN Outcome(PyNone, Exc("AttributeError"))
  ELSE AppLoop(<<>>, Unbound, Payload(Get(sp, "SPApplicationsDataType", PyList(<<>>))), 1)

(***************************************************************************)
(* reports/displays.py: DisplaysReport.report_data                         *)
(***************************************************************************)
\* _SP_DISPLAYS_ATTRS_MAP
SpDisplaysAttrsMap ==
  <<Item(Str1("_name"), Str1("model")),
    Item(Str1("_spdisplays_EDR_Enabled"), Str1("edr_enabled")),
    Item(Str1("_spdisplays_EDR_Limit"), Str1("edr_limit")),
    Item(Str1("_spdisplays_EDR_Supported"), Str1("edr_supported")),
    Item(Str1("_spdisplays_display-serial-number"), Str1("display_serial")),
    Item(Str1("_spdisplays_pixels"), Str1("native")),
    Item(Str1("_spdisplays_resolution"), Str1("ui_resolution")),
    Item(Str1("display_type"), Str1("display_type")),
    Item(Str1("manufactured"), Str1("manufactured")),
    Item(Str1("retina"), Str1("retina")),
    Item(Str1("spdisplays_ambient_brightness"), Str1("ambient_brightness")),
    Item(Str1("spdisplays_asleep"), Str1("display_asleep")),
    Item(Str1("spdisplays_automatic_graphics_switching"), Str1("automatic_graphics_switching")),
    Item(Str1("spdisplays_builtin"), Str1("type")),
    Item(Str1("spdisplays_connection_type"), Str1("connection_type")),
    Item(Str1("spdisplays_depth"), Str1("color_depth")),
    Item(Str1("spdisplays_display_type"), Str1("display_type")),
    Item(Str1("spdisplays_displayport_adapter_firmware_version"), Str1("dp_adapter_firmware_version")),
    Item(Str1("spdisplays_displayport_current_bandwidth"), Str1("dp_current_bandwidth")),
    Item(Str1("spdisplays_displayport_current_lanes"), Str1("dp_current_lanes")),
    Item(Str1("spdisplays_displayport_current_spread"), Str1("dp_current_spread")),
    Item(Str1("spdisplays_displayport_dpcd_version"), Str1("dp_dpcd_version")),
    Item(Str1("spdisplays_displayport_hdcp_capability"), Str1("dp_hdcp_capability")),
    Item(Str1("spdisplays_displayport_max_bandwidth"), Str1("dp_max_bandwidth")),
    Item(Str1("spdisplays_displayport_max_lanes"), Str1("dp_max_lanes")),
    Item(Str1("spdisplays_displayport_max_spread"), Str1("dp_max_spread")),
    Item(Str1("spdisplays_dynamic_range"), Str1("dynamic_range")),
    Item(Str1("spdisplays_interlaced"), Str1("interlaced")),
    Item(Str1("spdisplays_main"), Str1("main_display")),
    Item(Str1("spdisplays_mirror"), Str1("mirror")),
    Item(Str1("spdisplays_mirror_status"), Str1("mirror_status")),
    Item(Str1("spdisplays_online"), Str1("online")),
    Item(Str1("spdisplays_resolution"), Str1("resolution")),
    Item(Str1("spdisplays_rotation"), Str1("rotation_supported")),
    Item(Str1("spdisplays_television"), Str1("television")),
    Item(Str1("type"), Str1("type")),
    Item(Str1("vendor"), Str1("vendor")),
    Item(Str1("virtual_device"), Str1("virtual_device"))>>

\* _SP_DISPLAY_ATTRS_BOOL_TRUE; `val in list` compares with ==, and 1 == True
SpDisplayAttrsBoolTrue ==
  {Str1("On"), Str1("Online"), Str1("Supported"), Str1("Yes"), PyBool(TRUE), PyInt(1)}

\* _SP_DISPLAY_ATTRS_BOOL_FALSE; 0 == False
SpDisplayAttrsBoolFalse ==
  {Str1("No"), Str1("Off"), Str1("Offline"), Str1("Not HDCP-capable Sink"),
   Str1("Not Supported"), PyBool(FALSE), PyInt(0)}

\* _RETINA_KEYS, _VIRTUAL_VENDORS
RetinaKeys ==
  <<"spdisplays_pixelresolution", "_spdisplays_pixelresolution",
    "spdisplays_display_type", "_spdisplays_display_type">>
VirtualVendors == <<Str1("756e6b6e"), Str1("6161706c")>>

\* self._localisation_strings: the "en" strings of SPDisplaysReporter
LocalisationStrings ==
  <<Item(Str1("spdisplays_yes"), Str1("Yes")), Item(Str1("spdisplays_no"), Str1("No")),
    Item(Str1("spdisplays_off"), Str1("Off")),
    Item(Str1("spdisplays_supported"), Str1("Supported"))>>

\* _localise_values(d): .get(val, val) hashes val
_localise_values(d) ==
  IF \E i \in 1..Len(d) : ~Hashable(d[i].val) THEN Outcome(PyNone, Exc("TypeError"))
  ELSE Outcome(PyDict([i \in 1..Len(d) |->
                         Item(d[i].key,
                              IF DictHas(LocalisationStrings, d[i].val)
                              THEN DictGet(LocalisationStrings, d[i].val) ELSE d[i].val)]),
               NoExc)

\* f"{x}" of a value
FormatValue(v) == IF v = PyNone THEN <<"None">> ELSE Format(v)

\* _parse_mfg_value(d)
_parse_mfg_value(d) ==
  LET mfg_week == Get(d, "_spdisplays_display-week", PyNone)
      mfg_year == Get(d, "_spdisplays_display-year", PyNone)
  IN IF mfg_week \in {Str1("255"), Str1("0")}
     THEN PyStr(FormatValue(mfg_year) \o <<" Model">>)
     ELSE PyStr(FormatValue(mfg_year) \o <<"-">> \o FormatValue(mfg_week))

\* _parse_display_type(d)
_parse_display_type(d) ==
  IF Truthy(Get(d, "spdisplays_television", PyNone)) THEN Str1("LCD")
  ELSE Get(d, "spdisplays_display_type", PyNone)

\* _parse_virutal_display_and_vendor_id(d): (is_virtual, vendor_id)
_parse_virutal_display_and_vendor_id(d) ==
  LET _vendor_id == Get(d, "_spdisplays_display-vendor-id", PyNone)
      is_virtual == IF Truthy(_vendor_id)
                    THEN PyBool(\E i \in 1..Len(VirtualVendors) : VirtualVendors[i] = _vendor_id)
                    ELSE Get(d, "_spdisplays_virtualdevice", PyBool(FALSE))
      vendor_id == IF Truthy(_vendor_id) /\ _vendor_id = VirtualVendors[1]
                   THEN Str1("Virtual Display") ELSE _vendor_id
  IN <<is_virtual, vendor_id>>

RECURSIVE RetinaAny(_, _)
\* any("retina" in result.get(k, "") for k in self._RETINA_KEYS): stops at the
\* first key that holds it; `in` raises TypeError on a value that is not a str
RetinaAny(d, j) ==
  IF j > Len(RetinaKeys) THEN Parsed(PyBool(FALSE))
  ELSE LET v == Get(d, RetinaKeys[j], PyStr(<<>>)) IN
       IF Tag(v) # "str" THEN ParseError
       ELSE IF Contains(Payload(v), <<"retina">>) THEN Parsed(PyBool(TRUE))
       ELSE RetinaAny(d, j + 1)

\* if "spdisplays_builtin" not in result: result["spdisplays_builtin"] = "No"
SetBuiltin(result) ==
  IF DictHas(result, Str1("spdisplays_builtin")) THEN result
  ELSE DictSet(result, Str1("spdisplays_builtin"), Str1("No"))

\* if "spdisplays_display_type" not in result:
\*   result["spdisplays_display_type"] = self._parse_display_type(result)
SetDisplayType(result) ==
  IF DictHas(result, Str1("spdisplays_display_type")) THEN result
  ELSE DictSet(result, Str1("spdisplays_display_type"), _parse_display_type(PyDict(result)))

\* result["virtual_device"], result["vendor"] =
\*   self._parse_virutal_display_and_vendor_id(result)
SetVendor(result) ==
  LET vv == _parse_virutal_display_and_vendor_id(PyDict(result)) IN
  DictSet(DictSet(result, Str1("virtual_device"), vv[1]), Str1("vendor"), vv[2])

\* result["manufactured"] = self._parse_mfg_value(result)
SetManufactured(result) ==
  DictSet(result, Str1("manufactured"), _parse_mfg_value(PyDict(result)))

\* result["retina"] = any(...) and what follows it
SetRetina(result) ==
  LET retina == RetinaAny(PyDict(result), 1) IN
  IF ~retina.ok THEN Outcome(PyNone, Exc("TypeError"))
  ELSE Outcome(PyDict(SetManufactured(DictSet(result, Str1("retina"), retina.value))), NoExc)

\* the display port data of a display, localised without its "_name"
DisplayPortData(disp_port_data) ==
  IF ~Truthy(disp_port_data) THEN Outcome(PyDict(<<>>), NoExc)
  ELSE IF ~DictHas(Payload(disp_port_data), Str1("_name"))
  THEN Outcome(PyNone, Exc("KeyError"))
  ELSE _localise_values(DictDel(Payload(disp_port_data), Str1("_name")))

\* _parse_display_data(d), d being the items of a display of spdisplays_ndrvs
_parse_display_data(d) ==
  LET own == _localise_values(SelectSeq(d, LAMBDA it : it.key # Str1("_spdisplays_displayport_device")))
      port == DisplayPortData(Get(PyDict(d), "_spdisplays_displayport_device", PyNone))
  IN IF own.exc # NoExc THEN own
     ELSE IF port.exc # NoExc THEN port
     ELSE SetRetina(SetVendor(SetDisplayType(SetBuiltin(
            DictUpdate(Payload(own.ret), Payload(port.ret))))))

RECURSIVE ParseDisplays(_, _, _)
\* [self._parse_display_data(disp) for disp in gpu.get("spdisplays_ndrvs", [])]
ParseDisplays(done, displays, i) ==
  IF i > Len(displays) THEN Outcome(PyList(done), NoExc)
  ELSE LET o == _parse_display_data(Payload(displays[i])) IN
       IF o.exc # NoExc THEN o ELSE ParseDisplays(Append(done, o.ret), displays, i + 1)

\* a canonicalisation that tests the value as it came, unstripped
DisplayAttrUnstripped(data, key, val) ==
  IF DictHas(SpDisplaysAttrsMap, key)
  THEN DictSet(data, DictGet(SpDisplaysAttrsMap, key),
               IF val \in SpDisplayAttrsBoolTrue THEN PyInt(1)
               ELSE IF val \in SpDisplayAttrsBoolFalse THEN PyInt(0)
               ELSE val)
  ELSE data

\* the body of `for key, val in display.items()`
DisplayAttr(data, key, val) ==
  LET stripped == IF Tag(val) = "str" THEN PyStr(Strip(Payload(val))) ELSE val IN
  IF DictHas(SpDisplaysAttrsMap, key)
  THEN DictSet(data, DictGet(SpDisplaysAttrsMap, key),
               IF stripped \in SpDisplayAttrsBoolTrue THEN PyInt(1)
               ELSE IF stripped \in SpDisplayAttrsBoolFalse THEN PyInt(0)
               ELSE stripped)
  ELSE data

RECURSIVE DisplayAttrs(_, _, _)
DisplayAttrs(data, display, j) ==
  IF j > Len(display) THEN data
  ELSE DisplayAttrs(DisplayAttr(data, display[j].key, display[j].val), display, j + 1)

RECURSIVE DisplayLoop(_, _, _)
\* for display in displays: data = {}; ...  (data is what the last pass built)
DisplayLoop(data, displays, i) ==
  IF i > Len(displays) THEN data
  ELSE DisplayLoop(PyDict(DisplayAttrs(<<>>, Payload(displays[i]), 1)), displays, i + 1)

RECURSIVE GpuLoop(_, _, _, _)
\* for gpu in graphics_displays: ...; result.append(data), once per gpu, after
\* the loop over its displays
GpuLoop(result, data, gpus, i) ==
  IF i > Len(gpus) THEN Outcome(PyList(result), NoExc)
  ELSE LET displays == ParseDisplays(<<>>, Payload(Get(gpus[i], "spdisplays_ndrvs", PyList(<<>>))), 1) IN
       IF displays.exc # NoExc THEN displays
       ELSE LET last == DisplayLoop(data, Payload(displays.ret), 1) IN
            IF last = Unbound THEN Outcome(PyNone, Exc("UnboundLocalError"))
            ELSE GpuLoop(Append(result, last), last, gpus, i + 1)

\* DisplaysReport.report_data, sp being what system_profiler(dt) returned
DisplaysReportData(sp) ==
  IF Tag(sp) # "dict" THEN Outcome(PyNone, Exc("AttributeError"))
  ELSE GpuLoop(<<>>, Unbound, Payload(Get(sp, "SPDisplaysDataType", PyList(<<>>))), 1)

(***************************************************************************)
(* The parsers as processes: a parser calls its wrapper, which runs the    *)
(* command and hands the completed process to _return, and parses what     *)
(* comes back.  The wrappers are called with their declared defaults.      *)
(***************************************************************************)
\* the most lines of the text airport and scutil print
MaxOutputLines == 2

\* lines of `airport -I`
AirportOutputLines ==
  <<<<" ", " ", " ", " ", " ", "a", "g", "r", "C", "t", "l", "R", "S", "S", "I", ":", " ", "-", "5", "5">>,
    <<" ", " ", " ", " ", "a", "g", "r", "C", "t", "l", "N", "o", "i", "s", "e", ":", " ", "-", "9", "0">>,
    <<" ", " ", " ", " ", " ", " ", " ", " ", " ", " ", "s", "t", "a", "t", "e", ":", " ", "r", "u", "n", "n", "i", "n", "g">>,
    <<" ", " ", " ", " ", " ", " ", " ", " ", " ", " ", "B", "S", "S", "I", "D", ":", " ", "a", "a", ":", "b", "b">>,
    <<" ", " ", " ", " ", " ", " ", " ", " ", " ", " ", " ", "S", "S", "I", "D", ":", " ", "n", "e", "t", ":", " ", "5">>,
    <<" ", " ", " ", " ", "8", "0", "2", ".", "1", "1", " ", "a", "u", "t", "h", ":", " ", "o", "p", "e", "n">>,
    <<"A", "i", "r", "P", "o", "r", "t", ":", " ", "O", "f", "f">>,
    <<" ", " ", " ", " ", " ", "a", "g", "r", "C", "t", "l", "R", "S", "S", "I", ":", " ", "n", "/", "a">>>>

\* lines of `scutil` answering "show State:/Users/ConsoleUser"
ScutilOutputLines ==
  <<<<"<", "d", "i", "c", "t", "i", "o", "n", "a", "r", "y", ">", " ", "{">>,
    <<" ", " ", "N", "a", "m", "e", " ", ":", " ", "a", "l", "i", "c", "e">>,
    <<" ", " ", "N", "a", "m", "e", " ", ":", " ", "_", "m", "b", "s", "e", "t", "u", "p", "u", "s", "e", "r">>,
    <<" ", " ", "N", "a", "m", "e", " ", ":", " ">>,
    <<" ", " ", "U", "I", "D", " ", ":", " ", "5", "0", "1">>,
    <<"}">>>>

\* the texts made of at most MaxOutputLines of the given lines, each line ended
TextsOf(lines) ==
  UNION {{JoinTexts(<<>>, [i \in 1..n |-> lines[ls[i]] \o <<"\n">>])
            : ls \in [1..n -> 1..Len(lines)]} : n \in 0..MaxOutputLines}

\* what system_profiler -json prints
SystemProfilerTexts ==
  {<<>>, <<"{", "}", "\n">>, <<"{">>}
    \cup {<<JsonDocuments[i].text, "\n">> : i \in 1..Len(JsonDocuments)}

ParserNames == {"applications", "displays", "wifi", "has_current_user"}

\* the wrapper a parser calls
WrapperOf(which) ==
  CASE which = "wifi" -> "airport"
    [] which = "has_current_user" -> "scutil"
    [] OTHER -> "system_profiler"

StdoutOf(which) ==
  CASE which = "wifi" -> TextsOf(AirportOutputLines)
    [] which = "has_current_user" -> TextsOf(ScutilOutputLines)
    [] OTHER -> SystemProfilerTexts

\* the completed process of the command a parser's wrapper runs with the
\* declared defaults (output captured)
ParserProcesses(which) ==
  {[returncode |-> rc, stdout |-> PyStr(o),
    stderr |-> PyStr(IF rc = 0 THEN <<>> ELSE <<"b", "a", "d", "\n">>)]
     : rc \in {0, 1}, o \in StdoutOf(which)}

ParseInit ==
  /\ \E which \in ParserNames : \E p \in ParserProcesses(which) :
       pr = [which |-> which, p |-> p, data |-> PyNone, ret |-> PyNone,
             exc |-> NoExc, pc |-> "call"]
  /\ _kwargs = [name \in {"airport", "scutil", "system_profiler"} |-> KwDefault]
  /\ sys_stderr = <<>>
  /\ fd = FdIdle /\ wr = WrIdle /\ fs = FsIdle /\ io = <<>>
  /\ rt = RtIdle /\ cd = CdIdle /\ bw = BwIdle

\* what the wrapper `name` returns for the completed process pr.p: inner() and
\* then _return(p, fmt, **kwargs)
WrapperReturn(name, fmt, kwargs) ==
  _return(pr.p, fmt, PyInt(0), PyNone, Inner(name, kwargs))

\* the step of a parser: the wrapper's call and the parsing of its value
ParserStep(name, kwargs, r, o) ==
  /\ pr' = [pr EXCEPT !.data = r.ret,
                      !.ret = IF r.exc # NoExc THEN PyNone ELSE o.ret,
                      !.exc = IF r.exc # NoExc THEN r.exc ELSE o.exc,
                      !.pc = "done"]
  /\ sys_stderr' = sys_stderr \o r.printed
  /\ _kwargs' = [_kwargs EXCEPT ![name] = Inner(name, kwargs)]
  /\ UNCHANGED <<fd, wr, fs, io, rt, cd, bw>>

\* ApplicationsReport.report_data()
ApplicationsReport ==
  /\ pr.pc = "call" /\ pr.which = "applications"
  /\ LET r == WrapperReturn("system_profiler", Str1("json"), <<>>) IN
       ParserStep("system_profiler", <<>>, r, ApplicationsReportData(r.ret))

\* DisplaysReport.report_data()
DisplaysReport ==
  /\ pr.pc = "call" /\ pr.which = "displays"
  /\ LET r == WrapperReturn("system_profiler", Str1("json"), <<>>) IN
       ParserStep("system_profiler", <<>>, r, DisplaysReportData(r.ret))

\* WiFiReport.report_data(): result = self._parse_airport()
WiFiReport ==
  /\ pr.pc = "call" /\ pr.which = "wifi"
  /\ LET r == WrapperReturn("airport", PyNone, <<>>) IN
       ParserStep("airport", <<>>, r, _parse_airport(r.ret))

\* scutil(input="show State:/Users/ConsoleUser")
ScutilInput == <<Item(Str1("input"), Str1("show State:/Users/ConsoleUser"))>>

\* CurrentUserMixin.has_current_user
HasCurrentUser ==
  /\ pr.pc = "call" /\ pr.which = "has_current_user"
  /\ LET r == WrapperReturn("scutil", PyNone, ScutilInput) IN
       ParserStep("scutil", ScutilInput, r, has_current_user(r.ret))

ParseNext == ApplicationsReport \/ DisplaysReport \/ WiFiReport \/ HasCurrentUser

SpecParse == ParseInit /\ [][ParseNext]_vars

(***************************************************************************)
(* Properties of the parsers                                               *)
(***************************************************************************)
\* C17: when the command behind a report failed, so that system_profiler or
\* airport returned None, report_data of the applications, displays and wifi
\* reports completes without raising and yields no data.
C17_AbsenceTolerated ==
  (pr.pc = "done" /\ pr.which \in {"applications", "displays", "wifi"}
     /\ pr.p.returncode # 0 /\ pr.data = PyNone)
    => /\ pr.exc = NoExc
       /\ pr.ret \in {PyNone, PyList(<<>>), PyDict(<<>>)}

RECURSIVE ConsoleUserNames(_)
\* the non-empty user names of the "Name : " lines, in order
ConsoleUserNames(lines) ==
  IF Len(lines) = 0 THEN <<>>
  ELSE LET line == LStrip(RStrip(Head(lines)))
           name == LStrip(RStrip(SubSeq(line, Len(NamePrefix) + 1, Len(line))))
       IN (IF Len(line) >= Len(NamePrefix) /\ SubSeq(line, 1, Len(NamePrefix)) = NamePrefix
              /\ Len(name) > 0
           THEN <<name>> ELSE <<>>) \o ConsoleUserNames(Tail(lines))

\* the console user name scutil reported, "" when it reported none
ConsoleUser ==
  LET names == ConsoleUserNames(SplitLines(Payload(pr.p.stdout))) IN
  IF Len(names) = 0 THEN <<>> ELSE names[1]

\* C18: has_current_user does not return True when the console user name
\* scutil reports starts with "_", and returns True only for a non-empty user
\* name that does not start with "_".
C18_ServiceAccountsIgnored ==
  (pr.pc = "done" /\ pr.which = "has_current_user" /\ pr.p.returncode = 0)
    => /\ (Len(ConsoleUser) > 0 /\ ConsoleUser[1] = "_") => pr.ret # PyBool(TRUE)
       /\ pr.ret = PyBool(TRUE) => (Len(ConsoleUser) > 0 /\ ConsoleUser[1] # "_")

\* C19: the mapping _parse_airport returns never has the key 'bssid', whatever
\* airport printed.
C19_NoBssid ==
  (pr.pc = "done" /\ pr.which = "wifi" /\ pr.exc = NoExc)
    => Tag(pr.ret) = "dict" /\ \A i \in 1..Len(Payload(pr.ret)) :
          Payload(pr.ret)[i].key # PyStr(<<"b", "s", "s", "i", "d">>)

\* the output had a BSSID line and an RSSI line; the result holds the RSSI and
\* the SNR and no bssid
C19_Witness ==
  /\ pr.pc = "done" /\ pr.which = "wifi" /\ pr.exc = NoExc /\ pr.p.returncode = 0
  /\ Contains(Payload(pr.p.stdout), <<"B", "S", "S", "I", "D", ":", " ">>)
  /\ Holds(Payload(pr.ret), KeyRssi, PyInt(0 - 55))
  /\ Holds(Payload(pr.ret), KeySnr, PyInt(0 - 55))
  /\ ~DictHas(Payload(pr.ret), KeyBssid)


(***************************************************************************)
(* wrappers/binaries.py: codesign, and wrappers/opt_binaries.py: smartctl  *)
(* and smc.  fs.exists is the set of the paths that exist on the machine.  *)
(***************************************************************************)
ToolNames == {"codesign", "smartctl", "smc"}

\* the keyword arguments the decorator of a tool declares
ToolDefaults(name) == IF name = "codesign" THEN KwPipes ELSE KwDefault

CodesignPath == "/usr/bin/codesign"
SmartctlPath == "/usr/local/sbin/smartctl"
MunkiSmc == "/usr/local/munki/smc"
MunkireportSmc == "/usr/local/munkireport/smc"

\* the positional arguments a caller gives to a tool
ToolArgs == {<<>>, <<"-dv">>, <<"-dv", "/Applications/Safari.app">>}

\* the keyword arguments a caller gives to a tool
ToolKwargs ==
  {<<>>,
   <<Item(Str1("capture_output"), PyBool(FALSE))>>,
   <<Item(Str1("capture_output"), PyBool(TRUE))>>}

ToolsInit ==
  /\ _kwargs = [name \in ToolNames |-> ToolDefaults(name)]
  /\ bw = [name |-> "none", args |-> <<>>, kwargs |-> <<>>, passed |-> <<>>,
           ran |-> FALSE, cmd |-> <<>>, p |-> NoProcess, ret |-> PyNone,
           exc |-> NoExc, pc |-> "imported"]
  /\ \E exists \in SUBSET {SmartctlPath, MunkiSmc, MunkireportSmc} :
       fs = [exists |-> exists]
  /\ sys_stderr = <<>>
  /\ fd = FdIdle /\ wr = WrIdle /\ io = <<>>
  /\ rt = RtIdle /\ cd = CdIdle /\ pr = PrIdle

\* subprocess.run refuses stdout or stderr together with capture_output
RunRefuses(kwargs) ==
  Truthy(KwGet(kwargs, "capture_output"))
    /\ (DictHas(kwargs, Str1("stdout")) \/ DictHas(kwargs, Str1("stderr")))

\* p = subprocess.run(cmd, kwargs); return _return(p, kwargs), for wrapper `name`
\* called with args and kwargs, inner() having passed on `passed`
RunTool(name, args, kwargs, passed, cmd) ==
  IF RunRefuses(passed)
  THEN /\ bw' = WrapperCall(name, args, kwargs, passed, FALSE, <<>>, NoProcess,
                            Returned(PyNone, Exc("ValueError"), <<>>))
       /\ sys_stderr' = sys_stderr
  ELSE \E p \in RunResults(passed) :
         LET r == _return(p, PyNone, PyInt(0), PyNone, passed) IN
           /\ bw' = WrapperCall(name, args, kwargs, passed, TRUE, cmd, p, r)
           /\ sys_stderr' = sys_stderr \o r.printed

\* a wrapper that finds no binary: nothing is run, None is returned
RunNothing(name, args, kwargs, passed) ==
  /\ bw' = WrapperCall(name, args, kwargs, passed, FALSE, <<>>, NoProcess,
                       Returned(PyNone, NoExc, <<>>))
  /\ sys_stderr' = sys_stderr

\* codesign(_as_object=True, args..., kwargs...): the first positional argument
\* of the caller binds to _as_object, the rest to args
Codesign ==
  /\ Len(sys_stderr) < MaxStderrLines
  /\ \E args \in ToolArgs : \E kwargs \in ToolKwargs :
       LET passed == Inner("codesign", kwargs)
           rest == IF Len(args) = 0 THEN <<>> ELSE Tail(args)
       IN /\ _kwargs' = [_kwargs EXCEPT !["codesign"] = passed]
          /\ RunTool("codesign", args, kwargs, passed, <<CodesignPath>> \o rest)
  /\ UNCHANGED <<fd, wr, fs, io, rt, cd, pr>>

\* binary = smartctl_path if smartctl_path.exists() else None
SmartctlBinary == IF SmartctlPath \in fs.exists THEN <<SmartctlPath>> ELSE <<>>

\* smartctl
Smartctl ==
  /\ Len(sys_stderr) < MaxStderrLines
  /\ \E args \in ToolArgs : \E kwargs \in ToolKwargs :
       LET passed == Inner("smartctl", kwargs) IN
          /\ _kwargs' = [_kwargs EXCEPT !["smartctl"] = passed]
          /\ IF SmartctlBinary # <<>>
             THEN RunTool("smartctl", args, kwargs, passed, SmartctlBinary \o args)
             ELSE RunNothing("smartctl", args, kwargs, passed)
  /\ UNCHANGED <<fd, wr, fs, io, rt, cd, pr>>

\* a choice of the binary that prefers /usr/local/munkireport/smc
SmcBinaryMunkireportFirst ==
  IF MunkireportSmc \in fs.exists THEN <<MunkireportSmc>>
  ELSE IF MunkiSmc \in fs.exists THEN <<MunkiSmc>>
  ELSE <<>>

\* binary = munki_smc if munki_smc.exists() else munkireport_smc if
\* munkireport_smc.exists() else None
SmcBinary ==
  IF MunkiSmc \in fs.exists THEN <<MunkiSmc>>
  ELSE IF MunkireportSmc \in fs.exists THEN <<MunkireportSmc>>
  ELSE <<>>

\* smc
Smc ==
  /\ Len(sys_stderr) < MaxStderrLines
  /\ \E args \in ToolArgs : \E kwargs \in ToolKwargs :
       LET passed == Inner("smc", kwargs) IN
          /\ _kwargs' = [_kwargs EXCEPT !["smc"] = passed]
          /\ IF SmcBinary # <<>>
             THEN RunTool("smc", args, kwargs, passed, SmcBinary \o args)
             ELSE RunNothing("smc", args, kwargs, passed)
  /\ UNCHANGED <<fd, wr, fs, io, rt, cd, pr>>

ToolsNext == Codesign \/ Smartctl \/ Smc

SpecTools == ToolsInit /\ [][ToolsNext]_vars

(***************************************************************************)
(* Properties of codesign, smartctl and smc                                *)
(***************************************************************************)
\* C21: every call of codesign runs /usr/bin/codesign followed by all the
\* positional arguments of the caller, in order, and when the command exits 0
\* the call returns the CompletedProcess object itself.
C21_CodesignArgsAndObject ==
  [][(WrapperCalled /\ bw'.name = "codesign" /\ bw'.ran) =>
       /\ bw'.cmd = <<CodesignPath>> \o bw'.args
       /\ bw'.p.returncode = 0 =>
            (bw'.exc = NoExc /\ bw'.ret = PyCompletedProcess(bw'.p))
    ]_vars

\* C22: smartctl and smc run nothing and return None when their binary is at
\* none of the documented paths; otherwise smc runs /usr/local/munki/smc when it
\* exists, and /usr/local/munkireport/smc only when the munki one is absent.
C22_OptionalBinaries ==
  [][(WrapperCalled /\ bw'.name \in {"smartctl", "smc"}) =>
       /\ (bw'.name = "smartctl" /\ SmartctlPath \notin fs.exists)
            => (~bw'.ran /\ bw'.ret = PyNone /\ bw'.exc = NoExc)
       /\ (bw'.name = "smc" /\ MunkiSmc \notin fs.exists /\ MunkireportSmc \notin fs.exists)
            => (~bw'.ran /\ bw'.ret = PyNone /\ bw'.exc = NoExc)
       /\ (bw'.name = "smc" /\ bw'.ran /\ MunkiSmc \in fs.exists)
            => Head(bw'.cmd) = MunkiSmc
       /\ (bw'.name = "smc" /\ bw'.ran /\ Head(bw'.cmd) = MunkireportSmc)
            => (MunkiSmc \notin fs.exists /\ MunkireportSmc \in fs.exists)
    ]_vars

\* both smc binaries exist and smc ran the one under /usr/local/munki
C22_Witness ==
  /\ bw.pc = "returned" /\ bw.name = "smc" /\ bw.ran
  /\ {MunkiSmc, MunkireportSmc} \subseteq fs.exists
  /\ bw.cmd = <<MunkiSmc, "-dv">>

\* C23: a call of a wrapper that supplies no keyword arguments is run with the
\* declared defaults, whatever the earlier calls supplied.
C23_DefaultsPerCall ==
  [][(WrapperCalled /\ bw'.kwargs = <<>>) =>
       bw'.passed = DeclaredDefaults(bw'.name)
    ]_vars


(***************************************************************************)
(* Properties of write_report: a report is written or an error is raised   *)
(***************************************************************************)
\* the file at `path` was written in the step
Written(path) ==
  \E i \in 1..Len(io') : io'[i] = <<"write", path>> /\ (i > Len(io) \/ io[i] # io'[i])

\* C25: a call of write_report with the format 'csv' or 'plist' that returns
\* without an exception has written the file at tmp_dir/fp, whatever data is.
C25_WrittenOrRaised ==
  [][(Called /\ wr.fmt \in {"csv", "plist"} /\ wr'.exc = NoExc) => Written(ReportPath)]_vars


(***************************************************************************)
(* Properties of the reports                                               *)
(***************************************************************************)
RECURSIVE DisplaysOf(_)
\* the displays of the graphics devices, in order
DisplaysOf(gpus) ==
  IF Len(gpus) = 0 THEN <<>>
  ELSE Payload(Get(Head(gpus), "spdisplays_ndrvs", PyList(<<>>))) \o DisplaysOf(Tail(gpus))

\* the displays of what system_profiler returned
ReportedDisplays == DisplaysOf(Payload(Get(pr.data, "SPDisplaysDataType", PyList(<<>>))))

\* C24: DisplaysReport.report_data completes, and its result has one record for
\* every display of every graphics device, in order: the i-th record is that of
\* the i-th display; a graphics device without displays adds nothing.
C24_OneRecordPerDisplay ==
  (pr.pc = "done" /\ pr.which = "displays" /\ Tag(pr.data) = "dict")
    => /\ pr.exc = NoExc
       /\ Tag(pr.ret) = "list"
       /\ Len(Payload(pr.ret)) = Len(ReportedDisplays)
       /\ \A i \in 1..Len(ReportedDisplays) :
            Holds(Payload(Payload(pr.ret)[i]), Str1("model"),
                  Get(ReportedDisplays[i], "_name", PyNone))

\* the values the claim lists as true and as false
StatedTrue == {Str1("On"), Str1("Online"), Str1("Supported"), Str1("Yes"), PyBool(TRUE)}
StatedFalse ==
  {Str1("No"), Str1("Off"), Str1("Offline"), Str1("Not HDCP-capable Sink"),
   Str1("Not Supported"), PyBool(FALSE)}

\* a value canonicalised: a string is stripped, then 1 for a true value, 0 for
\* a false one, the value itself otherwise
Canonical(v) ==
  LET s == IF Tag(v) = "str" THEN PyStr(LStrip(RStrip(Payload(v)))) ELSE v IN
  IF s \in StatedTrue THEN PyInt(1) ELSE IF s \in StatedFalse THEN PyInt(0) ELSE s

\* rec is the record of the display data disp: each of its keys is the column
\* of a key of disp, with that key's value canonicalised, and every key of disp
\* that has a column is in it
RecordOf(rec, disp) ==
  /\ \A n \in 1..Len(rec) : \E m \in 1..Len(disp) :
       /\ DictHas(SpDisplaysAttrsMap, disp[m].key)
       /\ DictGet(SpDisplaysAttrsMap, disp[m].key) = rec[n].key
       /\ rec[n].val = Canonical(disp[m].val)
  /\ \A m \in 1..Len(disp) :
       DictHas(SpDisplaysAttrsMap, disp[m].key)
         => DictHas(rec, DictGet(SpDisplaysAttrsMap, disp[m].key))

\* C26: every record DisplaysReport.report_data returns is the record of the
\* data of one of the displays: its keys are the columns _SP_DISPLAYS_ATTRS_MAP
\* gives for the keys of the display data, keys without a column being dropped,
\* and its values are canonicalised (strings stripped, true values 1, false
\* values 0, other values kept).
C26_Canonicalised ==
  (pr.pc = "done" /\ pr.which = "displays" /\ pr.exc = NoExc /\ Tag(pr.ret) = "list")
    => \A i \in 1..Len(Payload(pr.ret)) : \E j \in 1..Len(ReportedDisplays) :
         LET o == _parse_display_data(Payload(ReportedDisplays[j])) IN
         o.exc = NoExc /\ RecordOf(Payload(Payload(pr.ret)[i]), Payload(o.ret))

\* the built-in display alone: "spdisplays_yes" and " Online " became 1,
\* "spdisplays_off" became 0, the name is kept and the key without a column is
\* not in the record
C26_Witness ==
  /\ pr.pc = "done" /\ pr.which = "displays" /\ pr.exc = NoExc
  /\ pr.data = SPDisplays(<<Gpu("GPU1", <<DisplayBuiltin>>)>>)
  /\ Len(Payload(pr.ret)) = 1
  /\ LET rec == Payload(Payload(pr.ret)[1]) IN
       /\ Holds(rec, Str1("model"), Str1("Color LCD"))
       /\ Holds(rec, Str1("main_display"), PyInt(1))
       /\ Holds(rec, Str1("online"), PyInt(1))
       /\ Holds(rec, Str1("mirror"), PyInt(0))
       /\ \A n \in 1..Len(rec) : rec[n].key # Str1("spdisplays_connection_note")


\* the attribute names _SP_APPLICATION_ATTRS_MAP gives for the system_profiler
\* keys, as the claim lists them
StatedAppAttrs ==
  <<<<"_name", "name">>, <<"arch", "arch">>, <<"arch_kind", "arch">>, <<"info", "info">>,
    <<"lastModified", "last_modified">>, <<"obtained_from", "obtained_from">>,
    <<"path", "path">>, <<"runtime_environment", "runtime_environment">>,
    <<"signed_by", "signed_by">>, <<"version", "version">>>>

\* the applications of what system_profiler returned
ReportedApps == Payload(Get(pr.data, "SPApplicationsDataType", PyList(<<>>)))

\* the value of an application for a key: the 'signed_by' list joined by "; "
StatedAppValue(app, key) ==
  IF key = "signed_by" THEN JoinSignedBy(Get(app, key, PyList(<<>>)))
  ELSE Get(app, key, PyNone)

\* C27: ApplicationsReport.report_data completes for every output, with one
\* record per application, in order; the record holds has64bit and, for every
\* key of the map that the application has, the application's value under the
\* attribute name of the key, the last key deciding when two keys share a name.
C27_OneRecordPerApplication ==
  (pr.pc = "done" /\ pr.which = "applications" /\ Tag(pr.data) = "dict")
    => /\ pr.exc = NoExc
       /\ Tag(pr.ret) = "list"
       /\ Len(Payload(pr.ret)) = Len(ReportedApps)
       /\ \A i \in 1..Len(ReportedApps) :
            LET rec == Payload(Payload(pr.ret)[i])
                app == ReportedApps[i]
            IN /\ DictHas(rec, Str1("has64bit"))
               /\ \A j \in 1..Len(StatedAppAttrs) :
                    (/\ DictHas(Payload(app), Str1(StatedAppAttrs[j][1]))
                     /\ \A k \in (j + 1)..Len(StatedAppAttrs) :
                          StatedAppAttrs[k][2] = StatedAppAttrs[j][2]
                            => ~DictHas(Payload(app), Str1(StatedAppAttrs[k][1])))
                      => Holds(rec, Str1(StatedAppAttrs[j][2]),
                               StatedAppValue(app, StatedAppAttrs[j][1]))


\* the text airport printed, and its lines stripped
AirportText == Payload(pr.p.stdout)
AirportStripped ==
  LET lines == SplitLines(LStrip(RStrip(AirportText))) IN
  [i \in 1..Len(lines) |-> LStrip(RStrip(lines[i]))]

\* the output reports AirPort off
ReportsOff ==
  \/ Contains(AirportText, <<"A", "i", "r", "P", "o", "r", "t", ":", " ", "O", "f", "f">>)
  \/ Contains(AirportText, <<"A", "i", "r", "P", "o", "r", "t", " ", "i", "s", " ", "O", "f", "f">>)

\* where the first ": " of a line starts, 0 when it has none
SepAt(line) ==
  IF Contains(line, <<":", " ">>)
  THEN CHOOSE n \in 1..Len(line) :
         /\ SubSeq(line, n, n + 1) = <<":", " ">>
         /\ \A m \in 1..(n - 1) : SubSeq(line, m, m + 1) # <<":", " ">>
  ELSE 0

\* the key of a 'key: value' line as the claim cleans it, and the text of its value
StatedKey(line) ==
  LET key == SubSeq(line, 1, SepAt(line) - 1) IN
  IF key = <<"8", "0", "2", ".", "1", "1", " ", "a", "u", "t", "h">>
  THEN <<"x", "8", "0", "2", "_", "1", "1", "_", "a", "u", "t", "h">>
  ELSE ReplaceChar(ReplaceChar(Lower(key), ".", "_"), " ", "_")
StatedValue(line) == SubSeq(line, SepAt(line) + 2, Len(line))

\* the entry of the i-th line is in the result: an integer when the value text
\* is an integer literal, a string otherwise; of two lines with the same key the
\* later one counts
EntryOfLine(i) ==
  LET line == AirportStripped[i]
      n == ParseInt(StatedValue(line))
  IN (\A k \in (i + 1)..Len(AirportStripped) :
        SepAt(AirportStripped[k]) = 0 \/ StatedKey(AirportStripped[k]) # StatedKey(line))
       => /\ DictHas(Payload(pr.ret), PyStr(StatedKey(line)))
          /\ IF n.ok THEN DictGet(Payload(pr.ret), PyStr(StatedKey(line))) = PyInt(n.value)
             ELSE Tag(DictGet(Payload(pr.ret), PyStr(StatedKey(line)))) = "str"

\* the integer the result holds for a key, 0 when it holds none
IntEntry(key) ==
  IF DictHas(Payload(pr.ret), key) THEN Payload(DictGet(Payload(pr.ret), key)) ELSE 0

\* _parse_airport returned for an output airport printed on success
AirportParsed == pr.pc = "done" /\ pr.which = "wifi" /\ pr.p.returncode = 0

\* C28 as stated: for an output that reports AirPort off the result is exactly
\* {'state': 'off'}; for any other output the call completes, every
\* 'key: value' line has its entry, and 'snr' is agrctlrssi minus agrctlnoise.
C28_ParsedLines_AsStated ==
  AirportParsed =>
    IF ReportsOff THEN pr.exc = NoExc /\ pr.ret = PyDict(StateOff)
    ELSE /\ pr.exc = NoExc /\ Tag(pr.ret) = "dict"
         /\ \A i \in 1..Len(AirportStripped) : SepAt(AirportStripped[i]) > 0 => EntryOfLine(i)
         /\ Holds(Payload(pr.ret), KeySnr, PyInt(IntEntry(KeyRssi) - IntEntry(KeyNoise)))

\* the value text of the last line with the given key is not an integer literal
NotAnInteger(key) ==
  \E i \in 1..Len(AirportStripped) :
    /\ SepAt(AirportStripped[i]) > 0 /\ PyStr(StatedKey(AirportStripped[i])) = key
    /\ ~ParseInt(StatedValue(AirportStripped[i])).ok
    /\ \A k \in (i + 1)..Len(AirportStripped) :
         SepAt(AirportStripped[k]) = 0 \/ PyStr(StatedKey(AirportStripped[k])) # key

\* C28 amended: the same, except that a line whose key is 'bssid' has no entry
\* (and a line whose key is 'snr' is overwritten by the computed value), and that
\* the call raises ValueError, returning nothing, when the agrctlrssi or the
\* agrctlnoise line holds a text that is not an integer literal.
C28_ParsedLines ==
  AirportParsed =>
    IF ReportsOff THEN pr.exc = NoExc /\ pr.ret = PyDict(StateOff)
    ELSE IF NotAnInteger(KeyRssi) \/ NotAnInteger(KeyNoise)
    THEN pr.exc = Exc("ValueError")
    ELSE /\ pr.exc = NoExc /\ Tag(pr.ret) = "dict"
         /\ \A i \in 1..Len(AirportStripped) :
              (SepAt(AirportStripped[i]) > 0
                 /\ PyStr(StatedKey(AirportStripped[i])) \notin {KeyBssid, KeySnr})
                => EntryOfLine(i)
         /\ Holds(Payload(pr.ret), KeySnr, PyInt(IntEntry(KeyRssi) - IntEntry(KeyNoise)))

\* the output had an RSSI line and a noise line: both are integer entries under
\* the lower-cased keys, and snr is their difference
C28_Witness ==
  /\ AirportParsed /\ pr.exc = NoExc /\ ~ReportsOff
  /\ Len(AirportStripped) = 2
  /\ Holds(Payload(pr.ret), KeyRssi, PyInt(0 - 55))
  /\ Holds(Payload(pr.ret), KeyNoise, PyInt(0 - 90))
  /\ Holds(Payload(pr.ret), KeySnr, PyInt(35))

=============================================================================
